---- MODULE Spec2Model ----
(***************************************************************************)
(* Jarvin real-time listening pipeline.                                    *)
(*                                                                         *)
(*   Spec        the live-state publisher (backend/listener/live_state.py) *)
(*               called from several threads, one step per statement.      *)
(*   SpecPoller  the publisher together with the UI poller (ui/poller.py). *)
(*   SpecVAD     the noise-gate VAD (audio/vad/detector.py), one step per  *)
(*               captured frame.                                           *)
(*                                                                         *)
(* Optional[T] values of the Python code are sequences of length <= 1:     *)
(* None is <<>> and a value v is <<v>>.                                    *)
(***************************************************************************)
EXTENDS Integers, Sequences, FiniteSets, TLC

VARIABLES
    \* ---- backend/listener/live_state.py ----
    lock,       \* owner of _lock (0: free)
    _seq,       \* module global _seq
    _state,     \* module global _state
    waiters,    \* threads blocked in _cv.wait
    now,        \* time.monotonic()
    pc,         \* per thread: position in the function it runs
    call,       \* per thread: the arguments of the running call
    tmp,        \* per thread: the value of _seq loaded by "_seq += 1"
    ret,        \* per thread: the returned dict (<<>>: none)
    woke,       \* per thread, history: "first" before the first pass of wait_next's
                \* loop; "flip" when a set_status that changed a flag ended its
                \* _cv.wait, "other" when something else did
    log,        \* history: the payloads of the set_snapshot calls, in order
    \* ---- ui/poller.py ----
    _last_seq,            \* Poller._last_seq
    conversation_memory,  \* the gr.State list the timer reads and writes
    appends,              \* history: seq -> number of turns appended for it
    \* ---- audio/vad/detector.py ----
    vad,                  \* the NoiseGateVAD instance and its generator frame
    \* ---- backend/listener/runner.py ----
    lsn,                  \* the run_listener task, its worker thread and watcher
    \* ---- backend/core/pipeline.py ----
    pipe,                 \* the running process_utterance calls and the temp directory
    \* ---- backend/asr/whisper.py, backend/llm/runtime_llama_cpp.py ----
    handles,              \* the lru_cache of each model loader and its users
    \* ---- backend/tts/engine.py ----
    tts,                  \* _engine_lock, _engine and the threads calling the module
    \* ---- backend/middleware/graceful_cancel.py ----
    mw,                   \* per request: the __call__ of the middleware
    \* ---- backend/listener/intents.py ----
    intents,              \* a transcript and the results of the two intent functions
    \* ---- memory/conversation.py ----
    store,                \* the tables of the conversation database and _lock
    \* ---- backend/api/routes/chat.py ----
    chat,                 \* the chat_endpoint request being served
    \* ---- backend/api/routes/control.py, audio.py, backend/api/app.py ----
    ctl                   \* app.state.stop_event, app.state.listener_task, the tasks

liveVars == <<lock, _seq, _state, waiters, now, pc, call, tmp, ret, woke, log>>
pollerVars == <<_last_seq, conversation_memory, appends>>
coreVars == <<liveVars, pollerVars, vad, lsn>>
svcVars == <<pipe, handles, tts, mw, intents, store, chat, ctl>>
vars == <<coreVars, svcVars>>

None == <<>>
Some(v) == <<v>>
Val(o) == o[1]

\* ------------------------------------------------------------------ bounds
NThreads == 2
MaxPubs == 2
MaxTime == 1

Threads == 1..NThreads
NoThread == 0

\* ------------------------------------------------------------ input values
\* Arguments of set_snapshot: a cycle with a reply, and a cycle whose transcript
\* is empty (the orchestrator passes None for an empty text or reply).
Payloads ==
    { [transcript |-> Some("a"), reply |-> Some("x"), cycle_ms |-> Some(10),
       utter_ms |-> Some(100), wav_path |-> Some("p1")],
      [transcript |-> None, reply |-> None, cycle_ms |-> Some(20),
       utter_ms |-> Some(200), wav_path |-> Some("p2")] }

OptBool == {None, Some(TRUE), Some(FALSE)}
Sinces == {None, Some(1)}
Timeouts == {None, Some(0), Some(1)}

NoPayload == CHOOSE p \in Payloads : p.transcript = None

NoCall ==
    [op |-> "none", payload |-> NoPayload, recording |-> None,
     processing |-> None, since |-> None, deadline |-> None, flipped |-> FALSE]

\* ================================================================ live state
\* _lock = threading.Lock(): a thread enters "with _cv" / "with _lock" only
\* while no thread holds the lock.
LockFreeUnguarded(l) == TRUE

LockFree(l) == l = NoThread

\* _state as created at import.
InitialState ==
    [ts |-> None, seq |-> None, utter_ms |-> None, transcript |-> None,
     reply |-> None, cycle_ms |-> None, wav_path |-> None,
     recording |-> FALSE, processing |-> FALSE]

\* _state.update({...}) of set_snapshot: the five payload fields, ts and seq.
UpdatedClearFlags(st, sq, p, t) ==
    [st EXCEPT !.ts = Some(t), !.seq = Some(sq), !.transcript = p.transcript,
               !.reply = p.reply, !.cycle_ms = p.cycle_ms,
               !.utter_ms = p.utter_ms, !.wav_path = p.wav_path,
               !.recording = FALSE, !.processing = FALSE]

UpdatedDropReply(st, sq, p, t) ==
    [st EXCEPT !.ts = Some(t), !.seq = Some(sq), !.transcript = p.transcript,
               !.cycle_ms = p.cycle_ms, !.utter_ms = p.utter_ms,
               !.wav_path = p.wav_path]

Updated(st, sq, p, t) ==
    [st EXCEPT !.ts = Some(t), !.seq = Some(sq), !.transcript = p.transcript,
               !.reply = p.reply, !.cycle_ms = p.cycle_ms,
               !.utter_ms = p.utter_ms, !.wav_path = p.wav_path]

\* "if flag is not None: _state[flag] = bool(flag)"
SetFlagAlways(old, arg) == arg = Some(TRUE)

SetFlag(old, arg) == IF arg = None THEN old ELSE Val(arg)

\* The test of wait_next's loop: isinstance(cur_seq, int) and
\* (since is None or cur_seq > since).
HasNext(cur_seq, since) ==
    /\ cur_seq # None
    /\ (since = None \/ Val(cur_seq) > Val(since))

\* "remaining == 0.0", remaining = max(0.0, deadline - time.monotonic()).
Expired(deadline, t) == deadline # None /\ Val(deadline) - t <= 0

Goto(t, l) == pc' = [pc EXCEPT ![t] = l]

\* Number of set_snapshot calls begun so far.
PubCalls == Len(log) + Cardinality({t \in Threads :
                pc[t] \in {"ss_load", "ss_store", "ss_update"}})

\* ---- time
Tick ==
    /\ now < MaxTime
    /\ now' = now + 1
    /\ UNCHANGED <<lock, _seq, _state, waiters, pc, call, tmp, ret, woke, log, pollerVars, vad, lsn, svcVars>>

\* ---- set_snapshot
\* The call, up to and including the entry of "with _cv".
SetSnapshotEnter(t, p) ==
    /\ pc[t] = "idle"
    /\ PubCalls < MaxPubs
    /\ LockFree(lock)
    /\ lock' = t
    /\ call' = [call EXCEPT ![t] = [NoCall EXCEPT !.op = "set_snapshot", !.payload = p]]
    /\ Goto(t, "ss_load")
    /\ UNCHANGED <<_seq, _state, waiters, now, tmp, ret, woke, log, pollerVars, vad, lsn, svcVars>>

\* "_seq += 1" is a load, an add and a store.
SetSnapshotLoad(t) ==
    /\ pc[t] = "ss_load"
    /\ tmp' = [tmp EXCEPT ![t] = _seq]
    /\ Goto(t, "ss_store")
    /\ UNCHANGED <<lock, _seq, _state, waiters, now, call, ret, woke, log, pollerVars, vad, lsn, svcVars>>

SetSnapshotStore(t) ==
    /\ pc[t] = "ss_store"
    /\ _seq' = tmp[t] + 1
    /\ tmp' = [tmp EXCEPT ![t] = 0]
    /\ Goto(t, "ss_update")
    /\ UNCHANGED <<lock, _state, waiters, now, call, ret, woke, log, pollerVars, vad, lsn, svcVars>>

SetSnapshotUpdate(t) ==
    /\ pc[t] = "ss_update"
    /\ _state' = Updated(_state, _seq, call[t].payload, now)
    /\ log' = Append(log, call[t].payload)
    /\ Goto(t, "ss_notify")
    /\ UNCHANGED <<lock, _seq, waiters, now, call, tmp, ret, woke, pollerVars, vad, lsn, svcVars>>

\* _cv.notify_all() by thread t, which goes on to label l: every waiter leaves
\* the wait set and queues for the lock.
NotifyAll(t, l, cause) ==
    /\ waiters' = {}
    /\ pc' = [u \in Threads |-> IF u \in waiters THEN "wn_reacquire"
                                ELSE IF u = t THEN l ELSE pc[u]]
    /\ woke' = [u \in Threads |-> IF u \in waiters THEN cause ELSE woke[u]]

SetSnapshotNotify(t) ==
    /\ pc[t] = "ss_notify"
    /\ NotifyAll(t, "ss_release", "other")
    /\ UNCHANGED <<lock, _seq, _state, now, call, tmp, ret, log, pollerVars, vad, lsn, svcVars>>

SetSnapshotRelease(t) ==
    /\ pc[t] = "ss_release"
    /\ lock' = NoThread
    /\ call' = [call EXCEPT ![t] = NoCall]
    /\ Goto(t, "idle")
    /\ UNCHANGED <<_seq, _state, waiters, now, tmp, ret, woke, log, pollerVars, vad, lsn, svcVars>>

\* ---- set_status
\* "if recording is None and processing is None: return"
SetStatusNoop(t) ==
    /\ pc[t] = "idle"
    /\ UNCHANGED vars

SetStatusEnter(t, r, p) ==
    /\ pc[t] = "idle"
    /\ ~(r = None /\ p = None)
    /\ LockFree(lock)
    /\ lock' = t
    /\ call' = [call EXCEPT ![t] = [NoCall EXCEPT !.op = "set_status",
                                      !.recording = r, !.processing = p]]
    /\ Goto(t, "st_flags")
    /\ UNCHANGED <<_seq, _state, waiters, now, tmp, ret, woke, log, pollerVars, vad, lsn, svcVars>>

SetStatusFlags(t) ==
    /\ pc[t] = "st_flags"
    /\ LET rec == SetFlag(_state.recording, call[t].recording)
           prc == SetFlag(_state.processing, call[t].processing)
       IN  /\ _state' = [_state EXCEPT !.recording = rec, !.processing = prc]
           /\ call' = [call EXCEPT ![t].flipped =
                          rec # _state.recording \/ prc # _state.processing]
    /\ Goto(t, "st_ts")
    /\ UNCHANGED <<lock, _seq, waiters, now, tmp, ret, woke, log, pollerVars, vad, lsn, svcVars>>

SetStatusTs(t) ==
    /\ pc[t] = "st_ts"
    /\ _state' = [_state EXCEPT !.ts = Some(now)]
    /\ Goto(t, "st_notify")
    /\ UNCHANGED <<lock, _seq, waiters, now, call, tmp, ret, woke, log, pollerVars, vad, lsn, svcVars>>

SetStatusNotify(t) ==
    /\ pc[t] = "st_notify"
    /\ NotifyAll(t, "st_release", IF call[t].flipped THEN "flip" ELSE "other")
    /\ UNCHANGED <<lock, _seq, _state, now, call, tmp, ret, log, pollerVars, vad, lsn, svcVars>>

SetStatusRelease(t) ==
    /\ pc[t] = "st_release"
    /\ lock' = NoThread
    /\ call' = [call EXCEPT ![t] = NoCall]
    /\ Goto(t, "idle")
    /\ UNCHANGED <<_seq, _state, waiters, now, tmp, ret, woke, log, pollerVars, vad, lsn, svcVars>>

\* ---- get_snapshot
GetSnapshotEnter(t) ==
    /\ pc[t] = "idle"
    /\ LockFree(lock)
    /\ lock' = t
    /\ call' = [call EXCEPT ![t] = [NoCall EXCEPT !.op = "get_snapshot"]]
    /\ Goto(t, "gs_copy")
    /\ UNCHANGED <<_seq, _state, waiters, now, tmp, ret, woke, log, pollerVars, vad, lsn, svcVars>>

\* "return dict(_state)": the copy is made inside "with _lock".
GetSnapshotCopy(t) ==
    /\ pc[t] = "gs_copy"
    /\ ret' = [ret EXCEPT ![t] = Some(_state)]
    /\ Goto(t, "gs_return")
    /\ UNCHANGED <<lock, _seq, _state, waiters, now, call, tmp, woke, log, pollerVars, vad, lsn, svcVars>>

\* The lock is released and the caller takes the dict.
GetSnapshotReturn(t) ==
    /\ pc[t] = "gs_return"
    /\ lock' = NoThread
    /\ ret' = [ret EXCEPT ![t] = None]
    /\ call' = [call EXCEPT ![t] = NoCall]
    /\ Goto(t, "idle")
    /\ UNCHANGED <<_seq, _state, waiters, now, tmp, woke, log, pollerVars, vad, lsn, svcVars>>

\* ---- wait_next
\* deadline = None if timeout is None else now + max(0.0, timeout); "with _cv".
WaitNextEnter(t, since, timeout) ==
    /\ pc[t] = "idle"
    /\ LockFree(lock)
    /\ lock' = t
    /\ call' = [call EXCEPT ![t] = [NoCall EXCEPT !.op = "wait_next", !.since = since,
                   !.deadline = IF timeout = None THEN None
                                ELSE Some(now + Val(timeout))]]
    /\ woke' = [woke EXCEPT ![t] = "first"]
    /\ Goto(t, "wn_check")
    /\ UNCHANGED <<_seq, _state, waiters, now, tmp, ret, log, pollerVars, vad, lsn, svcVars>>

\* One pass of the loop body, up to the return or the call of _cv.wait.
WaitNextCheck(t) ==
    /\ pc[t] = "wn_check"
    /\ IF HasNext(_state.seq, call[t].since) \/ Expired(call[t].deadline, now)
       THEN /\ ret' = [ret EXCEPT ![t] = Some(_state)]
            /\ Goto(t, "wn_return")
            /\ UNCHANGED <<lock, waiters>>
       ELSE \* _cv.wait(timeout=remaining): release the lock and block
            /\ lock' = NoThread
            /\ waiters' = waiters \cup {t}
            /\ Goto(t, "wn_blocked")
            /\ UNCHANGED ret
    /\ woke' = [woke EXCEPT ![t] = "none"]
    /\ UNCHANGED <<_seq, _state, now, call, tmp, log, pollerVars, vad, lsn, svcVars>>

\* _cv.wait(timeout=remaining) gives up when the time has passed.
WaitNextTimeout(t) ==
    /\ pc[t] = "wn_blocked"
    /\ t \in waiters
    /\ Expired(call[t].deadline, now)
    /\ waiters' = waiters \ {t}
    /\ woke' = [woke EXCEPT ![t] = "other"]
    /\ Goto(t, "wn_reacquire")
    /\ UNCHANGED <<lock, _seq, _state, now, call, tmp, ret, log, pollerVars, vad, lsn, svcVars>>

\* _cv.wait returns with the lock held again.
WaitNextReacquire(t) ==
    /\ pc[t] = "wn_reacquire"
    /\ LockFree(lock)
    /\ lock' = t
    /\ Goto(t, "wn_check")
    /\ UNCHANGED <<_seq, _state, waiters, now, call, tmp, ret, woke, log, pollerVars, vad, lsn, svcVars>>

WaitNextReturn(t) ==
    /\ pc[t] = "wn_return"
    /\ lock' = NoThread
    /\ ret' = [ret EXCEPT ![t] = None]
    /\ call' = [call EXCEPT ![t] = NoCall]
    /\ Goto(t, "idle")
    /\ UNCHANGED <<_seq, _state, waiters, now, tmp, woke, log, pollerVars, vad, lsn, svcVars>>

LiveInit ==
    /\ lock = NoThread
    /\ _seq = 0
    /\ _state = InitialState
    /\ waiters = {}
    /\ now = 0
    /\ pc = [t \in Threads |-> "idle"]
    /\ call = [t \in Threads |-> NoCall]
    /\ tmp = [t \in Threads |-> 0]
    /\ ret = [t \in Threads |-> None]
    /\ woke = [t \in Threads |-> "none"]
    /\ log = <<>>

PollerIdle ==
    /\ _last_seq = None
    /\ conversation_memory = <<>>
    /\ appends = <<>>

VadIdle == vad = <<>>

ListenerIdle == lsn = <<>>

PipeIdle == pipe = <<>>

HandlesIdle == handles = <<>>

TtsIdle == tts = <<>>

MwIdle == mw = <<>>

IntentsIdle == intents = <<>>

StoreIdle == store = <<>>

ChatIdle == chat = <<>>

CtlIdle == ctl = <<>>

\* Every service but the named one is out of use.
ServicesIdleBut(name) ==
    /\ IF name = "pipe" THEN TRUE ELSE PipeIdle
    /\ IF name = "handles" THEN TRUE ELSE HandlesIdle
    /\ IF name = "tts" THEN TRUE ELSE TtsIdle
    /\ IF name = "mw" THEN TRUE ELSE MwIdle
    /\ IF name = "intents" THEN TRUE ELSE IntentsIdle
    /\ IF name \in {"store", "chat"} THEN TRUE ELSE StoreIdle
    /\ IF name = "chat" THEN TRUE ELSE ChatIdle
    /\ IF name = "ctl" THEN TRUE ELSE CtlIdle

ServicesIdle == ServicesIdleBut("none")

CoreIdle == LiveInit /\ PollerIdle /\ VadIdle /\ ListenerIdle

Init == LiveInit /\ PollerIdle /\ VadIdle /\ ListenerIdle /\ ServicesIdle

Next ==
    \/ Tick
    \/ \E t \in Threads, p \in Payloads : SetSnapshotEnter(t, p)
    \/ \E t \in Threads : SetSnapshotLoad(t)
    \/ \E t \in Threads : SetSnapshotStore(t)
    \/ \E t \in Threads : SetSnapshotUpdate(t)
    \/ \E t \in Threads : SetSnapshotNotify(t)
    \/ \E t \in Threads : SetSnapshotRelease(t)
    \/ \E t \in Threads : SetStatusNoop(t)
    \/ \E t \in Threads, r \in OptBool, p \in OptBool : SetStatusEnter(t, r, p)
    \/ \E t \in Threads : SetStatusFlags(t)
    \/ \E t \in Threads : SetStatusTs(t)
    \/ \E t \in Threads : SetStatusNotify(t)
    \/ \E t \in Threads : SetStatusRelease(t)
    \/ \E t \in Threads : GetSnapshotEnter(t)
    \/ \E t \in Threads : GetSnapshotCopy(t)
    \/ \E t \in Threads : GetSnapshotReturn(t)
    \/ \E t \in Threads, s \in Sinces, d \in Timeouts : WaitNextEnter(t, s, d)
    \/ \E t \in Threads : WaitNextCheck(t)
    \/ \E t \in Threads : WaitNextTimeout(t)
    \/ \E t \in Threads : WaitNextReacquire(t)
    \/ \E t \in Threads : WaitNextReturn(t)

Spec == Init /\ [][Next]_vars

\* ---------------------------------------------------- claims on the live state
InSetStatus(t) == pc[t] \in {"st_flags", "st_ts", "st_notify", "st_release"}

NextSeq(s) == IF s = None THEN Some(1) ELSE Some(Val(s) + 1)

\* C1: every set_snapshot call raises _seq by exactly one, also when several
\* threads publish, and nothing else changes it: the counter and the published
\* seq only ever move to their successor, and only inside set_snapshot; when no
\* call is in progress both equal the number of set_snapshot calls made.
C1_SeqIncrementsByOne ==
    /\ [](lock = NoThread =>
            /\ _seq = Len(log)
            /\ _state.seq = IF log = <<>> THEN None ELSE Some(Len(log)))
    /\ [][ /\ (_seq' # _seq =>
                 /\ _seq' = _seq + 1
                 /\ \E t \in Threads : pc[t] = "ss_store" /\ pc'[t] = "ss_update")
           /\ (\A t \in Threads :
                 pc[t] = "ss_store" /\ pc'[t] = "ss_update" => _seq' = _seq + 1)
           /\ (_state'.seq # _state.seq =>
                 /\ _state'.seq = NextSeq(_state.seq)
                 /\ \E t \in Threads : pc[t] = "ss_update" /\ pc'[t] = "ss_notify")
         ]_vars

\* Two publications have been made and the second call is about to return.
C1_Witness ==
    \E t \in Threads :
        pc[t] = "ss_release" /\ _seq = 2 /\ _state.seq = Some(2) /\ Len(log) = 2

\* C2: a set_status call leaves _seq and the snapshot fields (seq, transcript,
\* reply, utter_ms, cycle_ms, wav_path) as they were, leaves a flag it was not
\* given as it was, and ends with every flag it was given set to the argument.
C2_SetStatusFrame ==
    /\ [](\A t \in Threads : pc[t] = "st_release" =>
            /\ call[t].recording # None => _state.recording = Val(call[t].recording)
            /\ call[t].processing # None => _state.processing = Val(call[t].processing))
    /\ [][\A t \in Threads : InSetStatus(t) /\ pc'[t] # pc[t] =>
            /\ _seq' = _seq
            /\ _state'.seq = _state.seq
            /\ _state'.transcript = _state.transcript
            /\ _state'.reply = _state.reply
            /\ _state'.utter_ms = _state.utter_ms
            /\ _state'.cycle_ms = _state.cycle_ms
            /\ _state'.wav_path = _state.wav_path
            /\ call[t].recording = None => _state'.recording = _state.recording
            /\ call[t].processing = None => _state'.processing = _state.processing
         ]_vars

\* set_status(recording=True) has run on a published snapshot whose processing
\* flag was set: recording flipped, processing and seq are as before.
C2_Witness ==
    \E t \in Threads :
        /\ pc[t] = "st_release"
        /\ call[t].recording = Some(TRUE) /\ call[t].processing = None
        /\ call[t].flipped
        /\ _state.recording /\ _state.processing
        /\ _state.seq = Some(1) /\ _state.transcript = Some("a")

\* The dict r is what the r.seq-th set_snapshot call wrote (nothing, before the
\* first call).
Consistent(r) ==
    IF r.seq = None
    THEN /\ r.transcript = None /\ r.reply = None /\ r.cycle_ms = None
         /\ r.utter_ms = None /\ r.wav_path = None
    ELSE /\ Val(r.seq) \in 1..Len(log)
         /\ LET p == log[Val(r.seq)]
            IN  /\ r.transcript = p.transcript /\ r.reply = p.reply
                /\ r.cycle_ms = p.cycle_ms /\ r.utter_ms = p.utter_ms
                /\ r.wav_path = p.wav_path

\* C3: a dict returned by get_snapshot or wait_next with seq n carries exactly
\* the five fields written by the n-th set_snapshot call.
C3_SnapshotReadsAtomic ==
    \A t \in Threads : ret[t] # None => Consistent(Val(ret[t]))

\* get_snapshot returns the second publication, which differs from the first.
C3_Witness ==
    \E t \in Threads :
        /\ pc[t] = "gs_return"
        /\ ret[t] # None /\ Val(ret[t]).seq = Some(2)
        /\ Len(log) = 2 /\ log[1] # log[2]

\* C4: a waiter whose _cv.wait was ended by a set_status call that changed a
\* flag, and whose since is still >= the current seq, returns from its next
\* pass of the loop.
C4_WaitNextReturnsOnStatusFlip ==
    [][\A t \in Threads :
          ( /\ pc[t] = "wn_check" /\ woke[t] = "flip"
            /\ call[t].since # None /\ _state.seq # None
            /\ Val(call[t].since) >= Val(_state.seq) )
          => pc'[t] \in {"wn_check", "wn_return"}
      ]_vars

\* C5: wait_next(since=None, timeout) returns from the first pass of its loop,
\* whatever the state.
C5_WaitNextNoneReturnsAtOnce ==
    [][\A t \in Threads :
          (pc[t] = "wn_check" /\ woke[t] = "first" /\ call[t].since = None)
          => pc'[t] \in {"wn_check", "wn_return"}
      ]_vars

\* ================================================================= UI poller
\* Publications seen by the poller; "text or None" is what the orchestrator
\* passes, and the other three fields play no part in Poller.tick's history.
Transcripts == {None, Some(""), Some("a"), Some(" a"), Some("b")}
Replies == {None, Some("x"), Some("y")}

PollerPayloads ==
    { [transcript |-> t, reply |-> r, cycle_ms |-> Some(10),
       utter_ms |-> Some(100), wav_path |-> Some("p1")] :
      t \in Transcripts, r \in Replies }

\* str.strip() on the texts above.
Strip(s) == IF s = " a" THEN "a" ELSE s

\* (l.get(key) or "").strip()
TextOf(o) == IF o = None THEN "" ELSE Strip(Val(o))

\* The duplicate test of Poller.tick on the last two entries of the history.
IsDuplicate(hist, t_now, r_now) ==
    /\ Len(hist) >= 2
    /\ LET u == hist[Len(hist) - 1]
           a == hist[Len(hist)]
       IN  /\ u[1] = "user" /\ u[2] = t_now
           /\ a[1] = "assistant"
           /\ (r_now = "" \/ a[2] = r_now)

\* new_hist of Poller.tick for a snapshot with a new seq.
NewHist(hist, t_now, r_now) ==
    IF t_now = "" \/ IsDuplicate(hist, t_now, r_now)
    THEN hist
    ELSE IF r_now = ""
         THEN Append(hist, <<"user", t_now>>)
         ELSE Append(Append(hist, <<"user", t_now>>), <<"assistant", r_now>>)

\* set_snapshot as one step (it runs under the lock).
PublishSnapshot(p) ==
    /\ Len(log) < MaxPubs
    /\ _seq' = _seq + 1
    /\ _state' = Updated(_state, _seq + 1, p, now)
    /\ log' = Append(log, p)
    /\ UNCHANGED <<lock, waiters, now, pc, call, tmp, ret, woke, pollerVars, vad, lsn, svcVars>>

\* Poller.tick when GET /live fails: api_get_live returns {} and seq is None.
TickNoLive ==
    /\ UNCHANGED vars

\* Poller.tick on the dict of GET /live (get_snapshot): the history and
\* _last_seq. The banner, metrics, timestamp and audio outputs are computed
\* from the same dict and do not feed back into these two.
PollerTick ==
    LET l == _state
        t_now == TextOf(l.transcript)
        r_now == TextOf(l.reply)
        seq == l.seq
    IN  IF seq # None /\ (_last_seq = None \/ Val(seq) > Val(_last_seq))
        THEN LET new_hist == NewHist(conversation_memory, t_now, r_now)
             IN  /\ _last_seq' = seq
                 /\ conversation_memory' = new_hist
                 /\ appends' = IF new_hist # conversation_memory
                               THEN [appends EXCEPT ![Val(seq)] = @ + 1]
                               ELSE appends
                 /\ UNCHANGED <<liveVars, vad, lsn, svcVars>>
        ELSE UNCHANGED vars

PollerInit ==
    /\ _last_seq = None
    /\ conversation_memory = <<>>
    /\ appends = [n \in 1..(MaxPubs + 1) |-> 0]

InitPoller == LiveInit /\ PollerInit /\ VadIdle /\ ListenerIdle /\ ServicesIdle

NextPoller ==
    \/ \E p \in PollerPayloads : PublishSnapshot(p)
    \/ PollerTick
    \/ TickNoLive

SpecPoller == InitPoller /\ [][NextPoller]_vars

\* ------------------------------------------------------ claims on the poller
\* C6: every published snapshot with a non-empty transcript is appended to the
\* poller's history exactly once: never twice, and once the poller has seen
\* that seq or a later one, not zero times.
C6_ExactlyOnceDelivery ==
    \A n \in 1..Len(log) :
        TextOf(log[n].transcript) # "" =>
            /\ appends[n] <= 1
            /\ (_last_seq # None /\ Val(_last_seq) >= n) => appends[n] = 1

\* ======================================================================= VAD
\* A captured frame is its number in capture order; its samples enter the
\* state machine only through rms_int16, which the frame source chooses.
\* RMS values, floor_rms and env_rms are fixed-point numbers in hundredths.
MaxFrames == 7

chunk == 1024
sample_rate == 16000
alpha_floor == 98
alpha_env == 85
initial_floor_rms == 50

Fx(x) == x * 100
Max(a, b) == IF a >= b THEN a ELSE b
Min(a, b) == IF a <= b THEN a ELSE b
Range(q) == {q[i] : i \in 1..Len(q)}

\* self.frame_ms = int((self.chunk / self.sample_rate) * 1000)
frame_ms == (chunk * 1000) \div sample_rate

\* rms_int16 of the frames the microphone delivers: silence, a level between
\* floor_adapt_margin * thr and thr, and speech.
Levels == {0, 190, 1000}

\* config.Settings with its defaults, but a calibration of two frames; times
\* are in ms (vad_calibration_sec and vad_max_utterance_sec are seconds in the
\* code), vad_floor_adapt_margin in percent.
DefaultCfg ==
    [vad_calibration_ms |-> 128,
     vad_threshold_mult |-> 3, vad_threshold_abs |-> 200,
     vad_attack_ms |-> 120, vad_release_ms |-> 350, vad_hangover_ms |-> 200,
     vad_pre_roll_ms |-> 300, vad_min_utterance_ms |-> 250,
     vad_max_utterance_ms |-> 30000,
     vad_use_instant_rms_for_trigger |-> TRUE,
     vad_floor_min |-> 20, vad_floor_max |-> 4000,
     vad_floor_adapt_margin |-> 90]

\* Settings overridden through the environment (JARVIN_VAD_*).
ShortCfg ==
    [DefaultCfg EXCEPT !.vad_release_ms = 128, !.vad_hangover_ms = 64,
                       !.vad_pre_roll_ms = 128]

Configs ==
    { DefaultCfg,
      ShortCfg,
      [ShortCfg EXCEPT !.vad_pre_roll_ms = 0],
      [ShortCfg EXCEPT !.vad_attack_ms = 128],
      [ShortCfg EXCEPT !.vad_release_ms = 64, !.vad_hangover_ms = 0],
      [ShortCfg EXCEPT !.vad_max_utterance_ms = 256],
      [ShortCfg EXCEPT !.vad_pre_roll_ms = 300, !.vad_max_utterance_ms = 256],
      [ShortCfg EXCEPT !.vad_floor_min = 100],
      [ShortCfg EXCEPT !.vad_floor_max = 300],
      [ShortCfg EXCEPT !.vad_use_instant_rms_for_trigger = FALSE],
      [ShortCfg EXCEPT !.vad_use_instant_rms_for_trigger = FALSE,
                       !.vad_attack_ms = 128, !.vad_floor_min = 100] }

\* ---- audio/vad/utils.py
clamp_floor(c, x) == Max(Fx(c.vad_floor_min), Min(Fx(c.vad_floor_max), x))

ema(value, prev, alpha) == (alpha * prev + (100 - alpha) * value) \div 100

thresholdZero(c, floor_rms) == 0

threshold(c, floor_rms) ==
    Max(Fx(c.vad_threshold_abs), floor_rms * c.vad_threshold_mult)

\* ---- the frame counts computed at the top of calibrate and utterances
n_frames(c) == Max(1, c.vad_calibration_ms \div frame_ms)
pre_frames(c) == Max(0, c.vad_pre_roll_ms \div frame_ms)
attack_needed(c) == Max(1, c.vad_attack_ms \div frame_ms)
release_needed(c) == Max(1, c.vad_release_ms \div frame_ms)
hangover_frames(c) == Max(0, c.vad_hangover_ms \div frame_ms)
max_frames(c) == c.vad_max_utterance_ms \div frame_ms

\* np.percentile(floors, 10): linear interpolation at index 0.1 * (n - 1).
Percentile10(floors) ==
    LET a == SortSeq(floors, LAMBDA x, y : x < y)
        n == Len(a)
        pos == 10 * (n - 1)
        lo == (pos \div 100) + 1
    IN  IF lo >= n THEN a[n]
        ELSE a[lo] + ((pos % 100) * (a[lo + 1] - a[lo])) \div 100

\* prebuf.append(frame) on collections.deque(maxlen=maxlen)
Push(buf, x, maxlen) ==
    LET q == Append(buf, x)
    IN  IF Len(q) <= maxlen THEN q
        ELSE SubSeq(q, Len(q) - maxlen + 1, Len(q))

\* "cur = list(prebuf); cur.append(frame)" at the start of speech
StartFramesNoAppend(prebuf, frame) == prebuf

StartFrames(prebuf, frame) == Append(prebuf, frame)

\* "if utt_ms >= s.vad_min_utterance_ms"
LongEnoughAlways(utt_ms, min_ms) == utt_ms >= 0

LongEnough(utt_ms, min_ms) == utt_ms >= min_ms

\* NoiseGateVAD.__init__, with the locals of utterances() as they are set when
\* the generator starts.
NewVad(c) ==
    [cfg |-> c, pc |-> "new", _stop_requested |-> FALSE, exc |-> "none",
     floor_rms |-> Fx(initial_floor_rms), env_rms |-> 0, _frame_idx |-> 0,
     floors |-> <<>>, prebuf |-> <<>>,
     in_speech |-> FALSE, above_cnt |-> 0, below_cnt |-> 0, hangover |-> 0,
     cur |-> <<>>,
     \* history: the number of trigger-false frames in a row since the last
     \* trigger-true frame handled in Speech (None: no such frame yet)
     dip |-> None,
     \* history: frames handed to calibrate or to the state machine and the
     \* largest RMS among them, utterances yielded, segments dropped, and the
     \* arguments of the on_recording calls
     captured |-> 0, peak |-> 0, emitted |-> <<>>, dropped |-> 0,
     rec |-> <<>>]

\* "in_speech = False; above_cnt = 0; below_cnt = 0; hangover = 0; cur = []"
Reset(v) ==
    [v EXCEPT !.in_speech = FALSE, !.above_cnt = 0, !.below_cnt = 0,
              !.hangover = 0, !.cur = <<>>, !.dip = None]

\* self._notify_recording(flag)
NotifyRecordingOnOnly(v, flag) ==
    IF flag THEN [v EXCEPT !.rec = Append(@, flag)] ELSE v

NotifyRecording(v, flag) == [v EXCEPT !.rec = Append(@, flag)]

\* __enter__: open() and _notify_recording(False)
VadEnter ==
    /\ vad.pc = "new"
    /\ vad' = NotifyRecording([vad EXCEPT !.pc = "open"], FALSE)
    /\ UNCHANGED <<liveVars, pollerVars, lsn, svcVars>>

\* __exit__: close() and _notify_recording(False), called by the owner of the
\* context while no call of calibrate or of the generator is executing.
VadExit ==
    /\ vad.pc \in {"open", "ready", "yielded", "done", "cal_stopped"}
    /\ vad' = NotifyRecording([vad EXCEPT !.pc = "closed"], FALSE)
    /\ UNCHANGED <<liveVars, pollerVars, lsn, svcVars>>

\* request_stop, from any thread: the flag, and _mic.stop() which makes a
\* blocked read come back.
RequestStop ==
    /\ vad.pc # "closed"
    /\ ~vad._stop_requested
    /\ vad' = [vad EXCEPT !._stop_requested = TRUE]
    /\ UNCHANGED <<liveVars, pollerVars, lsn, svcVars>>

\* "if self._stop_requested" in _read_frame and at the top of the loop
StopSeenNever(v) == FALSE

StopSeen(v) == v._stop_requested

\* calibrate is called: up to the first blocking read. _read_frame raises
\* StopIteration when the stop was requested.
CalibrateCall ==
    /\ vad.pc = "open"
    /\ vad' = IF StopSeen(vad)
              THEN [vad EXCEPT !.pc = "cal_stopped", !.exc = "StopIteration"]
              ELSE [vad EXCEPT !.pc = "cal_read"]
    /\ UNCHANGED <<liveVars, pollerVars, lsn, svcVars>>

\* calibrate: the read comes back; the second test of _read_frame, one pass of
\* the loop, and after the last frame the floor is set.
CalibrateFrame(r) ==
    /\ vad.pc = "cal_read"
    /\ IF StopSeen(vad)
       THEN vad' = [vad EXCEPT !.pc = "cal_stopped", !.exc = "StopIteration"]
       ELSE /\ vad.captured < MaxFrames
            /\ LET c == vad.cfg
                   fl == Append(vad.floors, Fx(r))
                   v == [vad EXCEPT !.captured = @ + 1, !.peak = Max(@, r)]
               IN  IF Len(fl) < n_frames(c)
                   THEN vad' = [v EXCEPT !.floors = fl]
                   ELSE LET f == clamp_floor(c, Percentile10(fl))
                        IN  vad' = [v EXCEPT !.pc = "ready", !.floors = <<>>,
                                             !.floor_rms = f, !.env_rms = f]
    /\ UNCHANGED <<liveVars, pollerVars, lsn, svcVars>>

\* utterances() is called and the generator started by the first next(),
\* after calibrate or without it: up to the top of the loop.
StartUtterances ==
    /\ vad.pc \in {"open", "ready"}
    /\ vad' = [vad EXCEPT !.pc = "run"]
    /\ UNCHANGED <<liveVars, pollerVars, lsn, svcVars>>

\* Top of the loop: "if self._stop_requested: return", else on to the
\* blocking read of _read_frame.
LoopTop ==
    /\ vad.pc = "run"
    /\ vad' = IF StopSeen(vad)
              THEN [vad EXCEPT !.pc = "done", !.exc = "StopIteration"]
              ELSE [vad EXCEPT !.pc = "read"]
    /\ UNCHANGED <<liveVars, pollerVars, lsn, svcVars>>

\* "is_above": the trigger of a frame of RMS r (lines 160-163).
Trigger(old, r) ==
    LET c == old.cfg
        r_inst == Fx(r)
        env == ema(r_inst, old.env_rms, alpha_env)
        thr == threshold(c, old.floor_rms)
    IN  IF c.vad_use_instant_rms_for_trigger THEN r_inst >= thr ELSE env >= thr

\* below_cnt after a frame handled in Speech (lines 203-210).
BelowCountNoHangover(is_above, hangover, below_cnt) ==
    IF is_above THEN 0 ELSE below_cnt + 1

BelowCount(is_above, hangover, below_cnt) ==
    IF is_above \/ hangover > 0 THEN 0 ELSE below_cnt + 1

\* "idle floor tracking": floor_rms after a frame of RMS r (lines 157-160).
AdaptFloorAlways(old, r) ==
    clamp_floor(old.cfg, ema(Fx(r), old.floor_rms, alpha_floor))

AdaptFloor(old, r) ==
    LET c == old.cfg
        r_inst == Fx(r)
        thr == threshold(c, old.floor_rms)
    IN  IF ~old.in_speech /\ r_inst * 100 < c.vad_floor_adapt_margin * thr
        THEN clamp_floor(c, ema(r_inst, old.floor_rms, alpha_floor))
        ELSE old.floor_rms

\* One pass of the loop body of utterances() on a frame of RMS r.
Process(old, r) ==
    LET c == old.cfg
        frame == old.captured + 1
        prebuf == Push(old.prebuf, frame, pre_frames(c))
        r_inst == Fx(r)
        env == ema(r_inst, old.env_rms, alpha_env)
        thr == threshold(c, old.floor_rms)
        is_above == Trigger(old, r)
        floor == AdaptFloor(old, r)
        v == [old EXCEPT !.pc = "run", !.captured = frame,
                         !.peak = Max(@, r), !._frame_idx = @ + 1,
                         !.prebuf = prebuf, !.env_rms = env,
                         !.floor_rms = floor]
    IN  IF ~old.in_speech
        THEN LET above_cnt == IF is_above THEN old.above_cnt + 1 ELSE 0
             IN  IF above_cnt >= attack_needed(c)
                 THEN NotifyRecording(
                        [v EXCEPT !.above_cnt = above_cnt,
                                  !.in_speech = TRUE, !.hangover = 0,
                                  !.cur = StartFrames(prebuf, frame),
                                  !.below_cnt = 0], TRUE)
                 ELSE [v EXCEPT !.above_cnt = above_cnt]
        ELSE LET cur == Append(old.cur, frame)
                 below_cnt == BelowCount(is_above, old.hangover, old.below_cnt)
                 hangover == IF is_above THEN hangover_frames(c)
                             ELSE IF old.hangover > 0 THEN old.hangover - 1
                             ELSE old.hangover
                 dip == IF is_above THEN Some(0)
                        ELSE IF old.dip = None THEN None
                        ELSE Some(Val(old.dip) + 1)
                 w == [v EXCEPT !.cur = cur, !.below_cnt = below_cnt,
                                !.hangover = hangover, !.dip = dip]
                 utt_ms == Len(cur) * frame_ms
             IN  IF ~(below_cnt >= release_needed(c) \/ Len(cur) >= max_frames(c))
                 THEN w
                 ELSE IF LongEnough(utt_ms, c.vad_min_utterance_ms)
                      THEN NotifyRecording(
                             [w EXCEPT !.pc = "yielded",
                                       !.emitted = Append(@, cur)], FALSE)
                      ELSE Reset(NotifyRecording(
                             [w EXCEPT !.dropped = @ + 1], FALSE))

\* The blocked read of _read_frame comes back: after a stop request the second
\* test raises StopIteration inside the generator, which ends it with
\* RuntimeError; otherwise the frame goes through the loop body, up to the top
\* of the loop or the yield.
ProcessFrame(r) ==
    /\ vad.pc = "read"
    /\ IF StopSeen(vad)
       THEN vad' = [vad EXCEPT !.pc = "done", !.exc = "RuntimeError"]
       ELSE /\ vad.captured < MaxFrames
            /\ vad' = Process(vad, r)
    /\ UNCHANGED <<liveVars, pollerVars, lsn, svcVars>>

\* The consumer asks for the next utterance: the generator resumes after the
\* yield and resets the segment, up to the top of the loop.
Resume ==
    /\ vad.pc = "yielded"
    /\ vad' = Reset([vad EXCEPT !.pc = "run"])
    /\ UNCHANGED <<liveVars, pollerVars, lsn, svcVars>>

InitVAD ==
    /\ LiveInit
    /\ PollerIdle
    /\ \E c \in Configs : vad = NewVad(c)
    /\ ListenerIdle
    /\ ServicesIdle

NextVAD ==
    \/ VadEnter
    \/ VadExit
    \/ RequestStop
    \/ CalibrateCall
    \/ \E r \in Levels : CalibrateFrame(r)
    \/ StartUtterances
    \/ LoopTop
    \/ \E r \in Levels : ProcessFrame(r)
    \/ Resume

SpecVAD == InitVAD /\ [][NextVAD]_vars

\* The thread that runs calibrate or the generator keeps running, a blocked
\* read comes back (with a frame, or because _mic.stop() ended it), and the
\* consumer of a yielded utterance asks for the next one or leaves the context.
FairSpecVAD ==
    /\ SpecVAD
    /\ WF_vars(LoopTop)
    /\ WF_vars(\E r \in Levels : ProcessFrame(r))
    /\ WF_vars(\E r \in Levels : CalibrateFrame(r))
    /\ WF_vars(Resume \/ VadExit)

\* ---------------------------------------------------------------- VAD claims
Idle(v) == ~v.in_speech
CountersReset(v) ==
    v.above_cnt = 0 /\ v.below_cnt = 0 /\ v.hangover = 0 /\ v.cur = <<>>

\* C7: every utterance yielded by utterances() lasts (number of frames times
\* frame_ms) at least vad_min_utterance_ms; a pass of the loop that ends a
\* segment yields it exactly when it is that long, and otherwise yields
\* nothing and leaves the machine Idle with above_cnt, below_cnt, hangover at
\* 0 and no current frames.
C7_MinUtteranceDuration ==
    /\ [](\A i \in 1..Len(vad.emitted) :
            Len(vad.emitted[i]) * frame_ms >= vad.cfg.vad_min_utterance_ms)
    /\ [][ /\ (vad.pc = "read" /\ vad.in_speech /\ Idle(vad'))
              => /\ (Len(vad.cur) + 1) * frame_ms < vad.cfg.vad_min_utterance_ms
                 /\ vad'.emitted = vad.emitted
                 /\ vad'.pc = "run"
                 /\ CountersReset(vad')
           /\ (vad.pc = "read" /\ vad'.pc = "yielded")
              => /\ vad'.emitted = Append(vad.emitted, vad'.cur)
                 /\ Len(vad'.cur) * frame_ms >= vad.cfg.vad_min_utterance_ms
           /\ (vad'.emitted # vad.emitted) => vad'.pc = "yielded"
         ]_vars

C7_Witness ==
    /\ vad.dropped >= 1
    /\ Len(vad.emitted) >= 1
    /\ vad.pc = "run"
    /\ Idle(vad)

\* C8: the frame sets of any two utterances yielded by utterances() are
\* disjoint.
C8_UtterancesDisjoint ==
    \A i, j \in 1..Len(vad.emitted) :
        i < j => Range(vad.emitted[i]) \cap Range(vad.emitted[j]) = {}

\* C9: after construction, after calibrate and after every processed frame,
\* vad_floor_min <= floor_rms <= vad_floor_max.
C9_FloorWithinBounds ==
    /\ Fx(vad.cfg.vad_floor_min) <= vad.floor_rms
    /\ vad.floor_rms <= Fx(vad.cfg.vad_floor_max)

\* C10: in Speech the list of frames of the current utterance is non-empty;
\* out of Speech it is empty with below_cnt and hangover at 0, and the pass
\* that leaves Speech (a finalization) also leaves above_cnt at 0.
C10_SpeechHasFrames ==
    /\ [](vad.in_speech => vad.cur # <<>>)
    /\ [](Idle(vad) => vad.cur = <<>> /\ vad.below_cnt = 0 /\ vad.hangover = 0)
    /\ [][(vad.in_speech /\ Idle(vad')) => CountersReset(vad')]_vars

C10_Witness ==
    /\ Idle(vad)
    /\ vad.pc = "run"
    /\ Len(vad.emitted) >= 1
    /\ vad.prebuf # <<>>
    /\ vad.emitted[Len(vad.emitted)][Len(vad.emitted[Len(vad.emitted)])] = vad.captured

Running(v) == v.pc \in {"run", "read", "cal_read"}
Ended(v) == v.pc \in {"done", "cal_stopped", "closed"}

CallsInUtterances(v) ==
    SubSeq(v.rec, 2, Len(v.rec) - (IF v.pc = "closed" THEN 1 ELSE 0))
SegmentOpen(v) ==
    v.in_speech /\ (v.emitted = <<>> \/ v.emitted[Len(v.emitted)] # v.cur)

CONFIRM_WINDOW_SEC == 15

\* Transcripts the ASR returns, and an error raised by it.
Texts == {"", "hello", "shut down", "confirm shutdown", "go ahead"}
AsrError == "AsrError"

\* _SHUTDOWN_HOTWORDS / _CONFIRM_HOTWORDS on the texts above
intent_shutdown(text) == text \in {"shut down", "confirm shutdown"}
intent_confirm(text) == text \in {"confirm shutdown", "go ahead"}

\* core.pipeline.process_utterance: "return text, reply, timings, wav_path";
\* llm.reply(text) is called for every non-empty text.
process_utterance(text) ==
    <<text, IF text = "" THEN "" ELSE "ok", 100, "p1">>

\* "text, reply, tms, wav_path, tts_wav_path = await ..." needs five values.
UnpackNeeds == 5

\* Keywords of live_state.set_snapshot, and those run_listener passes.
SetSnapshotParams == {"transcript", "reply", "cycle_ms", "utter_ms", "wav_path"}
SetSnapshotKeywords == SetSnapshotParams \cup {"tts_url"}

ConfirmPrompt == "To confirm shutdown, say: 'confirm shutdown'."

\* set_status(recording=r, processing=p) as one step (it runs under the lock)
WithStatus(st, r, p, t) ==
    IF r = None /\ p = None THEN st
    ELSE [st EXCEPT !.recording = SetFlag(@, r),
                    !.processing = SetFlag(@, p),
                    !.ts = Some(t)]

NewListener(confirm, wraps, delay) ==
    [voice_shutdown_confirm |-> confirm,
     \* what the interpreter does with a StopIteration handed to the future of
     \* to_thread: TRUE, the await raises RuntimeError; FALSE, set_exception
     \* refuses it and the future is never completed
     future_wraps |-> wraps,
     initial_delay |-> delay,
     pc |-> "start", how |-> "none",
     stop_event |-> FALSE, stopper_task |-> "none",
     _stop_requested |-> FALSE, mic |-> "none",
     worker |-> "idle", gen |-> "none", in_speech |-> FALSE,
     pending_shutdown_deadline |-> None,
     \* history: utterances taken, shutdown exits, the ASR result of the
     \* current cycle, the turns appended, a future that will never complete
     \* and whether process_utterance called the LLM in the current cycle
     cycles |-> 0, shut |-> 0, asr |-> None, turns |-> <<>>, stuck |-> FALSE,
     llm_ran |-> FALSE]

notState == <<lock, _seq, waiters, now, pc, call, tmp, ret, woke, log>>

\* Leaving "with audio" (close, _notify_recording(False)) and the finally
\* clause (stopper_task.cancel(), set_status(False, False)).
LeaveTry(l, how) ==
    [l EXCEPT !.pc = "done", !.how = how, !.mic = "closed",
              !.stopper_task = IF @ = "waiting" THEN "cancelled" ELSE @]

StateAtExit(st, t) ==
    WithStatus(WithStatus(st, Some(FALSE), None, t), Some(FALSE), Some(FALSE), t)

\* Lines 39-77: set_status(False, False), __enter__, the watcher task, and
\* calibrate handed to a worker thread.
Setup(l) ==
    [l EXCEPT !.pc = "calibrate", !.mic = "open", !.stopper_task = "waiting",
              !.worker = "cal"]

StateAtSetup(st, t) ==
    WithStatus(WithStatus(st, Some(FALSE), Some(FALSE), t), Some(FALSE), None, t)

\* "while not stop_event.is_set()": leave, or hand next(utter_gen) to a
\* worker thread; a suspended generator resumes after its yield and resets.
LoopHead(l) ==
    IF l.stop_event THEN LeaveTry(l, "stopped")
    ELSE [l EXCEPT !.pc = "next", !.worker = "gen_top",
                   !.gen = IF @ = "ended" THEN @ ELSE "running",
                   !.in_speech = IF l.gen = "suspended" THEN FALSE ELSE @]

StateAtLoopHead(l, st, t) ==
    IF l.stop_event THEN StateAtExit(st, t) ELSE st

\* "except Exception" around next(utter_gen), lines 86-91
HandleVadError(l) ==
    IF l.stop_event THEN LeaveTry(l, "stopped") ELSE [l EXCEPT !.pc = "sleep"]

\* A StopIteration handed to the future the coroutine awaits.
HandleStopIteration(l) ==
    IF l.future_wraps THEN HandleVadError(l) ELSE [l EXCEPT !.stuck = TRUE]

\* ---- the rest of a cycle, lines 103-173, once the result is unpacked
Out(l, st, sq, lg) == [l |-> l, st |-> st, sq |-> sq, lg |-> lg]

Raised(l, st, sq, lg, t) ==
    Out(LeaveTry(l, "raised"), StateAtExit(st, t), sq, lg)

\* "set_status(processing=False); stop_event.set(); return"
ShutdownExit(l, st, sq, lg, t) ==
    Out(LeaveTry([l EXCEPT !.stop_event = TRUE, !.shut = @ + 1], "shutdown"),
        StateAtExit(WithStatus(st, None, Some(FALSE), t), t), sq, lg)

\* set_snapshot(..., tts_url=...) raises TypeError on a keyword it does not
\* have; else the publication, set_status(processing=False), the 50 ms wait
\* and the loop test.
Published(l, st, sq, lg, p, t) ==
    IF ~(SetSnapshotKeywords \subseteq SetSnapshotParams)
    THEN Raised(l, st, sq, lg, t)
    ELSE LET st1 == WithStatus(Updated(st, sq + 1, p, t), None, Some(FALSE), t)
         IN  Out(LoopHead(l), StateAtLoopHead(l, st1, t), sq + 1, Append(lg, p))

OptText(x) == IF x = "" THEN None ELSE Some(x)

NormalReply(l, st, sq, lg, result, t) ==
    LET text == result[1]
        reply == result[2]
        t1 == IF text # "" THEN Append(l.turns, <<"user", text>>) ELSE l.turns
        t2 == IF reply # "" THEN Append(t1, <<"assistant", reply>>) ELSE t1
    IN  Published([l EXCEPT !.turns = t2], st, sq, lg,
                  [transcript |-> OptText(text), reply |-> OptText(reply),
                   cycle_ms |-> Some(10), utter_ms |-> Some(result[3]),
                   wav_path |-> Some(result[4])], t)

Cycle(l, st, sq, lg, result, t) ==
    LET text == result[1]
    IN  IF ~l.voice_shutdown_confirm
        THEN IF text # "" /\ intent_shutdown(text)
             THEN ShutdownExit(l, st, sq, lg, t)
             ELSE NormalReply(l, st, sq, lg, result, t)
        ELSE LET d == l.pending_shutdown_deadline
                 l1 == IF d # None /\ t > Val(d)
                       THEN [l EXCEPT !.pending_shutdown_deadline = None]
                       ELSE l
             IN  IF l1.pending_shutdown_deadline = None
                 THEN IF text # "" /\ intent_shutdown(text)
                      THEN Published(
                             [l1 EXCEPT !.pending_shutdown_deadline =
                                            Some(t + CONFIRM_WINDOW_SEC)],
                             st, sq, lg,
                             [transcript |-> Some(text),
                              reply |-> Some(ConfirmPrompt),
                              cycle_ms |-> None, utter_ms |-> Some(result[3]),
                              wav_path |-> Some(result[4])], t)
                      ELSE NormalReply(l1, st, sq, lg, result, t)
                 ELSE IF text # "" /\ intent_confirm(text)
                      THEN ShutdownExit(l1, st, sq, lg, t)
                      ELSE NormalReply(l1, st, sq, lg, result, t)

\* ---- the coroutine
ListenerStart ==
    /\ lsn.pc = "start"
    /\ IF lsn.initial_delay > 0
       THEN lsn' = [lsn EXCEPT !.pc = "delay"] /\ UNCHANGED _state
       ELSE lsn' = Setup(lsn) /\ _state' = StateAtSetup(_state, now)
    /\ UNCHANGED <<notState, pollerVars, vad, svcVars>>

\* wait_for(stop_event.wait(), timeout=initial_delay) returns: "return"
DelayStopped ==
    /\ lsn.pc = "delay"
    /\ lsn.stop_event
    /\ lsn' = [lsn EXCEPT !.pc = "done", !.how = "delay_stop"]
    /\ UNCHANGED <<liveVars, pollerVars, vad, svcVars>>

\* ... or times out
DelayElapsed ==
    /\ lsn.pc = "delay"
    /\ ~lsn.stop_event
    /\ lsn' = Setup(lsn)
    /\ _state' = StateAtSetup(_state, now)
    /\ UNCHANGED <<notState, pollerVars, vad, svcVars>>

\* "await asyncio.sleep(0.05); continue"
SleepOver ==
    /\ lsn.pc = "sleep"
    /\ lsn' = LoopHead(lsn)
    /\ _state' = StateAtLoopHead(lsn, _state, now)
    /\ UNCHANGED <<notState, pollerVars, vad, svcVars>>

\* _watch_stop_event: stop_event.wait() returns, loop.request_stop()
StopperRuns ==
    /\ lsn.stopper_task = "waiting"
    /\ lsn.stop_event
    /\ lsn' = [lsn EXCEPT !.stopper_task = "done", !._stop_requested = TRUE]
    /\ UNCHANGED <<liveVars, pollerVars, vad, svcVars>>

\* ---- the environment of the task
\* stop_event.set() by the control API or the lifespan
ExternalStop ==
    /\ lsn.pc # "done"
    /\ ~lsn.stop_event
    /\ lsn' = [lsn EXCEPT !.stop_event = TRUE]
    /\ UNCHANGED <<liveVars, pollerVars, vad, svcVars>>

\* task.cancel() (wait_for(task, timeout=3.0) of /shutdown does it on
\* timeout): CancelledError at the await the coroutine is suspended in. The
\* worker thread is not interrupted.
Cancel ==
    /\ lsn.pc \in {"delay", "calibrate", "next", "sleep", "pipeline"}
    /\ IF lsn.pc = "delay"
       THEN lsn' = [lsn EXCEPT !.pc = "done", !.how = "cancelled"]
            /\ UNCHANGED _state
       ELSE lsn' = LeaveTry(lsn, "cancelled")
            /\ _state' = StateAtExit(_state, now)
    /\ UNCHANGED <<notState, pollerVars, vad, svcVars>>

\* ---- the worker thread
Delivers(l) == l.pc # "done"

\* calibrate ends: its read fails on the closed stream; or _read_frame raises
\* StopIteration after request_stop, which the future hands on or refuses; or
\* it returns and the coroutine goes on to "utter_gen = audio.utterances()"
\* and the loop.
CalibrateEnds ==
    /\ lsn.worker = "cal"
    /\ LET l == [lsn EXCEPT !.worker = "idle"]
       IN  IF ~Delivers(lsn)
           THEN lsn' = l /\ UNCHANGED _state
           ELSE IF lsn._stop_requested
                THEN IF lsn.future_wraps
                     THEN /\ lsn' = LeaveTry(l, "raised")
                          /\ _state' = StateAtExit(_state, now)
                     ELSE lsn' = [l EXCEPT !.stuck = TRUE] /\ UNCHANGED _state
                ELSE /\ lsn' = LoopHead([l EXCEPT !.gen = "fresh"])
                     /\ _state' = StateAtLoopHead(l, _state, now)
    /\ UNCHANGED <<notState, pollerVars, vad, svcVars>>

\* next(utter_gen) reaches the top of the generator's loop: a generator that
\* has ended, or sees _stop_requested and returns, gives StopIteration.
GenTop ==
    /\ lsn.worker = "gen_top"
    /\ IF lsn.gen = "ended" \/ lsn._stop_requested
       THEN LET l == [lsn EXCEPT !.worker = "idle", !.gen = "ended"]
            IN  IF ~Delivers(lsn)
                THEN lsn' = l /\ UNCHANGED _state
                ELSE /\ lsn' = HandleStopIteration(l)
                     /\ _state' = IF l.future_wraps /\ l.stop_event
                                  THEN StateAtExit(_state, now) ELSE _state
       ELSE lsn' = [lsn EXCEPT !.worker = "gen_read"] /\ UNCHANGED _state
    /\ UNCHANGED <<notState, pollerVars, vad, svcVars>>

\* The generator ends with an exception (RuntimeError from the StopIteration
\* of _read_frame, or the error of the read).
GenRaises(l0) ==
    LET l == [l0 EXCEPT !.worker = "idle", !.gen = "ended"]
    IN  IF ~Delivers(l0)
        THEN lsn' = l /\ UNCHANGED _state
        ELSE /\ lsn' = HandleVadError(l)
             /\ _state' = IF l.stop_event
                          THEN StateAtExit(_state, now) ELSE _state

\* The read of _read_frame comes back: on a closed stream it fails; after
\* request_stop the frame is refused; else the generator has a frame.
GenRead ==
    /\ lsn.worker = "gen_read"
    /\ IF lsn.mic = "closed" \/ lsn._stop_requested
       THEN GenRaises(lsn)
       ELSE lsn' = [lsn EXCEPT !.worker = "gen_have"] /\ UNCHANGED _state
    /\ UNCHANGED <<notState, pollerVars, vad, svcVars>>

\* The device read raises (overflow, device gone).
MicError ==
    /\ lsn.worker = "gen_read"
    /\ lsn.mic = "open"
    /\ GenRaises(lsn)
    /\ UNCHANGED <<notState, pollerVars, vad, svcVars>>

\* The loop body on the frame: no transition; Idle->Speech with
\* on_recording(True); a finalization with on_recording(False), dropped or
\* yielded. on_recording is set_status(recording=flag). A yield ends next():
\* the coroutine goes on with set_status(processing=True) and hands
\* process_utterance to a worker thread.
GenKinds == {"none", "start", "drop", "yield"}

GenProcess(kind) ==
    /\ lsn.worker = "gen_have"
    /\ kind = "start" => ~lsn.in_speech
    /\ kind \in {"drop", "yield"} => lsn.in_speech
    /\ LET st1 == CASE kind = "none" -> _state
                    [] kind = "start" -> WithStatus(_state, Some(TRUE), None, now)
                    [] OTHER -> WithStatus(_state, Some(FALSE), None, now)
       IN  IF kind # "yield"
           THEN /\ lsn' = [lsn EXCEPT !.worker = "gen_top",
                                      !.in_speech = IF kind = "none" THEN @
                                                    ELSE kind = "start"]
                /\ _state' = st1
           ELSE IF ~Delivers(lsn)
                THEN /\ lsn' = [lsn EXCEPT !.worker = "idle",
                                           !.gen = "suspended"]
                     /\ _state' = st1
                ELSE /\ lsn' = [lsn EXCEPT !.worker = "pipe",
                                           !.gen = "suspended",
                                           !.pc = "pipeline",
                                           !.cycles = @ + 1, !.asr = None,
                                           !.llm_ran = FALSE]
                     /\ _state' = WithStatus(st1, None, Some(TRUE), now)
    /\ UNCHANGED <<notState, pollerVars, vad, svcVars>>

\* process_utterance ends: the ASR raised, or it returns its tuple, which the
\* coroutine unpacks (ValueError when the lengths differ) before the rest of
\* the cycle.
PipelineEnds(out) ==
    /\ lsn.worker = "pipe"
    /\ LET result == process_utterance(out)
           l == [lsn EXCEPT !.worker = "idle", !.asr = Some(out),
                            !.llm_ran = (out # AsrError /\ out # "")]
           res == IF ~Delivers(lsn) THEN Out(l, _state, _seq, log)
                  ELSE IF out = AsrError \/ Len(result) # UnpackNeeds
                       THEN Raised(l, _state, _seq, log, now)
                       ELSE Cycle(l, _state, _seq, log, result, now)
       IN  /\ lsn' = res.l
           /\ _state' = res.st
           /\ _seq' = res.sq
           /\ log' = res.lg
    /\ UNCHANGED <<lock, waiters, now, pc, call, tmp, ret, woke, pollerVars, vad, svcVars>>

ListenerInit ==
    \E confirm \in BOOLEAN, wraps \in BOOLEAN, delay \in {0, 1} :
        lsn = NewListener(confirm, wraps, delay)

InitListener == LiveInit /\ PollerIdle /\ VadIdle /\ ListenerInit /\ ServicesIdle

NextListener ==
    \/ Tick
    \/ ListenerStart
    \/ DelayStopped
    \/ DelayElapsed
    \/ SleepOver
    \/ StopperRuns
    \/ ExternalStop
    \/ Cancel
    \/ CalibrateEnds
    \/ GenTop
    \/ GenRead
    \/ MicError
    \/ \E kind \in GenKinds : GenProcess(kind)
    \/ \E out \in Texts \cup {AsrError} : PipelineEnds(out)

SpecListener == InitListener /\ [][NextListener]_vars

\* The event loop runs a ready coroutine, the worker thread runs, a device
\* read and a pipeline call return.
FairSpecListener ==
    /\ SpecListener
    /\ WF_vars(ListenerStart)
    /\ WF_vars(DelayStopped \/ DelayElapsed)
    /\ WF_vars(SleepOver)
    /\ WF_vars(StopperRuns)
    /\ WF_vars(CalibrateEnds)
    /\ WF_vars(GenTop)
    /\ WF_vars(GenRead)
    /\ WF_vars(\E kind \in GenKinds : GenProcess(kind))
    /\ WF_vars(\E out \in Texts \cup {AsrError} : PipelineEnds(out))

\* ------------------------------------------------------ claims on the listener
\* The step in which the coroutine gets the outcome of process_utterance.
PipeStep ==
    lsn.pc = "pipeline" /\ lsn.worker = "pipe" /\ lsn'.worker # "pipe"
Transcribed == Val(lsn'.asr)
WindowArmed ==
    /\ lsn.pending_shutdown_deadline # None
    /\ now <= Val(lsn.pending_shutdown_deadline)

\* C14: once the listener task is done, whatever the exit path, the live
\* state has recording = false and processing = false, and no later write of
\* a worker thread sets a flag again.
C14_FlagsClearedAtExit ==
    lsn.pc = "done" => ~_state.recording /\ ~_state.processing

\* C15: set_snapshot is called at most once per utterance taken from the VAD,
\* and exactly once for every cycle that has ended other than by a shutdown
\* exit.
C15_OneSnapshotPerCycle ==
    /\ Len(log) <= lsn.cycles
    /\ (lsn.pc # "pipeline" /\ lsn.how # "cancelled")
          => Len(log) = lsn.cycles - lsn.shut

\* C16: single-shot voice shutdown: when the transcript matches
\* intent_shutdown, the orchestrator publishes processing = false, sets
\* stop_event and exits, with no snapshot and no turn for that utterance; and
\* a listener that is done takes no further utterance.
C16_SingleShotShutdown ==
    [][ /\ (PipeStep /\ ~lsn.voice_shutdown_confirm
              /\ intent_shutdown(Transcribed))
           => /\ lsn'.stop_event
              /\ lsn'.pc = "done"
              /\ ~_state'.processing
              /\ log' = log
              /\ lsn'.turns = lsn.turns
        /\ lsn.pc = "done" => lsn'.cycles = lsn.cycles
      ]_vars

\* C17: confirm mode, arming: with no window pending, an utterance matching
\* intent_shutdown arms a window of CONFIRM_WINDOW_SEC and publishes one
\* snapshot whose reply is the confirmation prompt; stop_event is not set and
\* the LLM reply is not run for that utterance.
C17_ConfirmArms ==
    [][ (PipeStep /\ lsn.voice_shutdown_confirm
           /\ lsn.pending_shutdown_deadline = None
           /\ intent_shutdown(Transcribed))
        => /\ lsn'.pending_shutdown_deadline = Some(now + CONFIRM_WINDOW_SEC)
           /\ Len(log') = Len(log) + 1
           /\ log'[Len(log')].reply = Some(ConfirmPrompt)
           /\ lsn'.stop_event = lsn.stop_event
           /\ ~lsn'.llm_ran
      ]_vars

\* C18: confirm mode, stopping: speech sets stop_event only for an utterance
\* matching intent_confirm inside an armed, unexpired window; any other
\* utterance does not stop the listener, and a non-confirm utterance inside
\* the window leaves the window as it is.
C18_StopOnlyOnConfirmInWindow ==
    [][ (PipeStep /\ lsn.voice_shutdown_confirm /\ ~lsn.stop_event
           /\ Transcribed \in Texts)
        => /\ lsn'.stop_event => (WindowArmed /\ intent_confirm(Transcribed))
           /\ ~(WindowArmed /\ intent_confirm(Transcribed)) => lsn'.pc # "done"
           /\ (WindowArmed /\ ~intent_confirm(Transcribed))
                 => lsn'.pending_shutdown_deadline = lsn.pending_shutdown_deadline
      ]_vars

\* C19: an error raised by the ASR while one utterance is processed does not
\* end the listener: processing goes back to false and the loop goes on.
C19_ErrorsNotFatal ==
    [][ (PipeStep /\ ~lsn.stop_event /\ Transcribed = AsrError)
        => /\ lsn'.pc # "done"
           /\ ~_state'.processing
      ]_vars

\* C20: once stop_event is set, at whatever point after run_listener has
\* started, the listener task eventually completes.
C20_StopHonoured == lsn.stop_event ~> lsn.pc = "done"

(***************************************************************************)
(* backend/core/pipeline.py: process_utterance, called from worker threads *)
(* (asyncio.to_thread in run_listener).  One step per capability call.     *)
(***************************************************************************)

\* Threads that run process_utterance at the same time, e.g. the worker of a
\* cancelled listener task and the worker of the task started after it.
Callers == {"w1", "w2"}

\* The audio of an utterance, named by what Whisper hears in it.
Pcms == {"silence", "hello", "stop"}

\* backend/util/paths.py: os.path.join(root, name), root = abspath(cfg.TEMP_DIR)
temp_path(name) == <<"temp", name>>

\* model.transcribe(...).get("text", ""): Whisper's raw text for a wav file
\* with the given samples; it pads its text with a leading blank.
WhisperText(samples) == IF samples = "silence" THEN " " ELSE <<" ", samples>>

\* str.strip() on Whisper's raw text
StripTranscript(raw) == IF raw = " " THEN "" ELSE raw[2]

\* llm.reply(text): a reply, or None / "" when the model gives nothing
LlmOutputs == {None, Some(""), Some("ok")}

\* "llm.reply(text) or ''"
OrEmpty(o) == IF o = None THEN "" ELSE Val(o)

NoRun == [pc |-> "idle", pcm |-> "silence", wav_path |-> <<>>, text |-> "",
          reply |-> "", events |-> <<>>, result |-> <<>>]

NewPipe == [calls |-> [c \in Callers |-> NoRun], files |-> <<>>]

\* What a file holds: the samples written last, by whom (history).
FileAt(files, path) == IF \E i \in 1..Len(files) : files[i].path = path
                       THEN LET i == CHOOSE i \in 1..Len(files) : files[i].path = path
                            IN  Some(files[i])
                       ELSE None

WriteFile(files, path, samples, who) ==
    LET f == [path |-> path, samples |-> samples, by |-> who]
    IN  IF \E i \in 1..Len(files) : files[i].path = path
        THEN [i \in 1..Len(files) |-> IF files[i].path = path THEN f ELSE files[i]]
        ELSE Append(files, f)

othersThanPipe == <<coreVars, handles, tts, mw, intents, store, chat, ctl>>

\* Lines 32-37: choose the path and write the wav file.
PipeWrite(c, pcm) ==
    /\ pipe.calls[c].pc = "idle"
    /\ LET path == temp_path("live_utt.wav")
       IN  pipe' = [pipe EXCEPT
                !.files = WriteFile(@, path, pcm, c),
                !.calls[c] = [NoRun EXCEPT !.pc = "written", !.pcm = pcm,
                                           !.wav_path = path,
                                           !.events = <<"write_wav">>]]
    /\ UNCHANGED othersThanPipe

\* Lines 61-63: text = asr.transcribe(wav_path).strip()
PipeTranscribe(c) ==
    /\ pipe.calls[c].pc = "written"
    /\ LET f == Val(FileAt(pipe.files, pipe.calls[c].wav_path))
       IN  pipe' = [pipe EXCEPT
                !.calls[c].text = StripTranscript(WhisperText(f.samples)),
                !.calls[c].events = Append(@, "asr"),
                !.calls[c].pc = "transcribed"]
    /\ UNCHANGED othersThanPipe

\* "if text:" (line 67)
NeedsReplyAlways(text) == TRUE

NeedsReply(text) == text # ""

\* Lines 65-77: the reply, the timings and the returned tuple.
PipeReply(c, out) ==
    /\ pipe.calls[c].pc = "transcribed"
    /\ LET r == pipe.calls[c]
           reply == IF NeedsReply(r.text) THEN OrEmpty(out) ELSE ""
       IN  pipe' = [pipe EXCEPT
                !.calls[c].reply = reply,
                !.calls[c].events = IF NeedsReply(r.text) THEN Append(@, "llm") ELSE @,
                !.calls[c].result = <<r.text, reply, "timings", r.wav_path>>,
                !.calls[c].pc = "returned"]
    /\ UNCHANGED othersThanPipe

\* The caller takes the result; the thread is free for the next utterance.
PipeDone(c) ==
    /\ pipe.calls[c].pc = "returned"
    /\ pipe' = [pipe EXCEPT !.calls[c].pc = "idle"]
    /\ UNCHANGED othersThanPipe

InitPipeline ==
    /\ CoreIdle /\ ServicesIdleBut("pipe")
    /\ pipe = NewPipe

NextPipeline ==
    \/ \E c \in Callers, pcm \in Pcms : PipeWrite(c, pcm)
    \/ \E c \in Callers : PipeTranscribe(c)
    \/ \E c \in Callers, out \in LlmOutputs : PipeReply(c, out)
    \/ \E c \in Callers : PipeDone(c)

SpecPipeline == InitPipeline /\ [][NextPipeline]_vars

\* A call that holds a temp file: written, not yet returned.
InFlight(r) == r.pc \in {"written", "transcribed"}

\* C21: two calls of process_utterance that overlap in time never use the
\* same temp file path.
C21_TempPathsDistinct ==
    \A c, d \in Callers :
        (c # d /\ InFlight(pipe.calls[c]) /\ InFlight(pipe.calls[d]))
            => pipe.calls[c].wav_path # pipe.calls[d].wav_path

Count(seq, x) == Cardinality({i \in 1..Len(seq) : seq[i] = x})

\* C28: a call that has returned with an empty transcript has invoked neither
\* the LLM nor TTS and returns the reply ""; with a non-empty transcript it
\* has invoked the LLM exactly once, after ASR returned.
C28_EmptyTranscriptShortCircuits ==
    \A c \in Callers :
        LET r == pipe.calls[c]
        IN  r.pc = "returned" =>
              /\ Count(r.events, "tts") = 0
              /\ r.text = "" => (Count(r.events, "llm") = 0 /\ r.reply = ""
                                 /\ r.result[2] = "")
              /\ r.text # "" => (Count(r.events, "llm") = 1
                                 /\ r.events = <<"write_wav", "asr", "llm">>)

\* C28: both cases have happened in one run: one call returned with an empty
\* transcript, the other with the transcript "hello" and the LLM's reply.
C28_Witness ==
    /\ pipe # <<>>
    /\ pipe.calls["w1"].pc = "returned" /\ pipe.calls["w1"].text = ""
    /\ pipe.calls["w1"].events = <<"write_wav", "asr">>
    /\ pipe.calls["w2"].pc = "returned" /\ pipe.calls["w2"].text = "hello"
    /\ pipe.calls["w2"].reply = "ok"

(***************************************************************************)
(* The model handles: backend/asr/whisper.py _get_model_and_device and     *)
(* backend/llm/runtime_llama_cpp.py _load_llama, both wrapped in           *)
(* functools.lru_cache.  The wrapper looks the key up, calls the function  *)
(* on a miss without holding any lock, and stores the result afterwards    *)
(* unless the key has been stored in the meantime.                         *)
(***************************************************************************)

\* Threads that use a model: pipeline workers, request handlers.
Users == {"u1", "u2", "u3"}

Loaders == {"_get_model_and_device", "_load_llama"}

NoUse == [pc |-> "idle", fn |-> "_load_llama", got |-> <<>>]

NewHandles ==
    [cache    |-> [f \in Loaders |-> None],   \* the lru_cache entry of the one key
     loads    |-> [f \in Loaders |-> 0],      \* history: runs of the wrapped function
     returned |-> [f \in Loaders |-> {}],     \* history: handles given to callers
     th       |-> [u \in Users |-> NoUse]]

othersThanHandles == <<coreVars, pipe, tts, mw, intents, store, chat, ctl>>

\* The call of the cached function: a hit returns the stored handle, a miss
\* goes on to run the wrapped function.
CacheLookup(u, f) ==
    /\ handles.th[u].pc = "idle"
    /\ IF handles.cache[f] # None
       THEN handles' = [handles EXCEPT
                !.th[u] = [pc |-> "returned", fn |-> f, got |-> handles.cache[f]],
                !.returned[f] = @ \cup {Val(handles.cache[f])}]
       ELSE handles' = [handles EXCEPT
                !.th[u] = [pc |-> "loading", fn |-> f, got |-> None]]
    /\ UNCHANGED othersThanHandles

\* whisper.load_model(...) / Llama(...) returns a new object; the wrapper
\* stores it if the key is still absent and returns it either way.
LoadEnds(u) ==
    /\ handles.th[u].pc = "loading"
    /\ LET f == handles.th[u].fn
           n == handles.loads[f] + 1
           h == <<f, n>>
       IN  handles' = [handles EXCEPT
                !.loads[f] = n,
                !.cache[f] = IF @ = None THEN Some(h) ELSE @,
                !.returned[f] = @ \cup {h},
                !.th[u] = [pc |-> "returned", fn |-> f, got |-> Some(h)]]
    /\ UNCHANGED othersThanHandles

\* The caller is done with this use of the model.
UseEnds(u) ==
    /\ handles.th[u].pc = "returned"
    /\ handles' = [handles EXCEPT !.th[u] = NoUse]
    /\ UNCHANGED othersThanHandles

InitHandles ==
    /\ CoreIdle /\ ServicesIdleBut("handles")
    /\ handles = NewHandles

NextHandles ==
    \/ \E u \in Users, f \in Loaders : CacheLookup(u, f)
    \/ \E u \in Users : LoadEnds(u)
    \/ \E u \in Users : UseEnds(u)

SpecHandles == InitHandles /\ [][NextHandles]_vars

\* C22: the load function of the Whisper model, and of the llama handle, runs
\* at most once per process, and all threads obtain the same handle.
C22_HandlesLoadedOnce ==
    \A f \in Loaders :
        /\ handles.loads[f] <= 1
        /\ Cardinality(handles.returned[f]) <= 1

(***************************************************************************)
(* backend/tts/engine.py: the shared pyttsx3 engine and _engine_lock.      *)
(* One step per lock operation and per engine call.                        *)
(***************************************************************************)

NoUser == "none"

TtsOps == {"_get_engine", "synth_to_wav"}

\* Texts given to synth_to_wav; " " is blank after strip().
TtsTexts == {"", " ", "hi"}

NewTts ==
    [_engine_lock |-> NoUser,       \* owner of the threading.Lock
     _engine      |-> None,         \* module global _engine
     inits        |-> 0,            \* history: calls of pyttsx3.init
     returned     |-> {},           \* history: engines returned by _get_engine
     th           |-> [u \in Users |-> [pc |-> "idle", op |-> "_get_engine",
                                        eng |-> None]]]

othersThanTts == <<coreVars, pipe, handles, mw, intents, store, chat, ctl>>

\* "with _engine_lock:" can be entered
EngineLockFreeAlways(t) == TRUE

EngineLockFree(t) == t._engine_lock = NoUser

\* The call: synth_to_wav raises ValueError on a blank text (lines 31-32),
\* otherwise it goes on to _get_engine (line 35).
TtsCall(u, op, text) ==
    /\ tts.th[u].pc = "idle"
    /\ IF op = "synth_to_wav" /\ text \in {"", " "}
       THEN tts' = [tts EXCEPT !.th[u] = [pc |-> "raised", op |-> op, eng |-> None]]
       ELSE tts' = [tts EXCEPT !.th[u] = [pc |-> "ge_acquire", op |-> op, eng |-> None]]
    /\ UNCHANGED othersThanTts

\* _get_engine, line 17: acquire the lock.
GetEngineAcquire(u) ==
    /\ tts.th[u].pc = "ge_acquire"
    /\ EngineLockFree(tts)
    /\ tts' = [tts EXCEPT !._engine_lock = u, !.th[u].pc = "ge_check"]
    /\ UNCHANGED othersThanTts

\* Lines 18-19: "if _engine is None: _engine = pyttsx3.init()"
GetEngineInit(u) ==
    /\ tts.th[u].pc = "ge_check"
    /\ IF tts._engine = None
       THEN tts' = [tts EXCEPT !.inits = @ + 1,
                               !._engine = Some(<<"engine", tts.inits + 1>>),
                               !.th[u].pc = "ge_return"]
       ELSE tts' = [tts EXCEPT !.th[u].pc = "ge_return"]
    /\ UNCHANGED othersThanTts

\* Line 23: "return _engine" and the release of the lock at the end of the
\* with block.
GetEngineReturn(u) ==
    /\ tts.th[u].pc = "ge_return"
    /\ tts' = [tts EXCEPT
            !._engine_lock = NoUser,
            !.returned = @ \cup {Val(tts._engine)},
            !.th[u].eng = tts._engine,
            !.th[u].pc = IF tts.th[u].op = "synth_to_wav" THEN "sy_acquire"
                         ELSE "done"]
    /\ UNCHANGED othersThanTts

\* synth_to_wav, line 37: acquire the lock.
SynthAcquire(u) ==
    /\ tts.th[u].pc = "sy_acquire"
    /\ EngineLockFree(tts)
    /\ tts' = [tts EXCEPT !._engine_lock = u, !.th[u].pc = "sy_save"]
    /\ UNCHANGED othersThanTts

\* Line 38: eng.save_to_file(text, out_path)
SynthSave(u) ==
    /\ tts.th[u].pc = "sy_save"
    /\ tts' = [tts EXCEPT !.th[u].pc = "sy_run"]
    /\ UNCHANGED othersThanTts

\* Line 39: eng.runAndWait(), and the release of the lock.
SynthRun(u) ==
    /\ tts.th[u].pc = "sy_run"
    /\ tts' = [tts EXCEPT !._engine_lock = NoUser, !.th[u].pc = "done"]
    /\ UNCHANGED othersThanTts

\* The call has returned or raised; the thread is free for the next call.
TtsReturn(u) ==
    /\ tts.th[u].pc \in {"done", "raised"}
    /\ tts' = [tts EXCEPT !.th[u].pc = "idle"]
    /\ UNCHANGED othersThanTts

InitTts ==
    /\ CoreIdle /\ ServicesIdleBut("tts")
    /\ tts = NewTts

NextTts ==
    \/ \E u \in Users, op \in TtsOps, text \in TtsTexts : TtsCall(u, op, text)
    \/ \E u \in Users : GetEngineAcquire(u)
    \/ \E u \in Users : GetEngineInit(u)
    \/ \E u \in Users : GetEngineReturn(u)
    \/ \E u \in Users : SynthAcquire(u)
    \/ \E u \in Users : SynthSave(u)
    \/ \E u \in Users : SynthRun(u)
    \/ \E u \in Users : TtsReturn(u)

SpecTts == InitTts /\ [][NextTts]_vars

\* The threads that are using the engine: between the entry of the with
\* block of synth_to_wav and the return of runAndWait.
UsingEngine == {u \in Users : tts.th[u].pc \in {"sy_save", "sy_run"}}

\* C23: pyttsx3.init is called at most once, exactly once as soon as a call
\* of _get_engine has returned; every call returns the same engine object;
\* and no two threads use the engine at the same time.
C23_EngineSingleton ==
    /\ tts.inits <= 1
    /\ tts.returned # {} => tts.inits = 1
    /\ Cardinality(tts.returned) <= 1
    /\ \A u \in Users : tts.th[u].eng # None => tts.th[u].eng = tts._engine
    /\ Cardinality(UsingEngine) <= 1

\* C23: one thread runs the engine inside synth_to_wav while the two others,
\* one calling _get_engine and one calling synth_to_wav, wait for the lock,
\* and _get_engine has already returned the engine to two callers.
C23_Witness ==
    /\ tts # <<>>
    /\ tts.th["u1"].pc = "sy_run"
    /\ tts.th["u2"].pc = "ge_acquire" /\ tts.th["u2"].op = "_get_engine"
    /\ tts.th["u3"].pc = "sy_acquire"
    /\ tts.inits = 1

(***************************************************************************)
(* backend/middleware/graceful_cancel.py: GracefulCancelMiddleware, one    *)
(* asyncio task per request.                                               *)
(***************************************************************************)

Requests == {"r1", "r2", "r3"}

\* Exception classes the wrapped app can raise, with their base classes
\* (the class itself first).
Mro(cls) ==
    CASE cls = "CancelledError"     -> {"CancelledError", "BaseException"}
      [] cls = "KeyboardInterrupt"  -> {"KeyboardInterrupt", "BaseException"}
      [] cls = "CustomError"        -> {"CustomError", "Exception", "BaseException"}
      [] cls = "TimeoutError"       -> {"TimeoutError", "OSError", "Exception",
                                        "BaseException"}

AppExceptions == {"CancelledError", "KeyboardInterrupt", "CustomError", "TimeoutError"}

\* "except asyncio.CancelledError:" matches the exception
CaughtAll(cls) == TRUE

Caught(cls) == "CancelledError" \in Mro(cls)

NoRequest == [pc |-> "idle", app_calls |-> 0, app_out |-> None, exc |-> None]

NewMw == [r \in Requests |-> NoRequest]

othersThanMw == <<coreVars, pipe, handles, tts, intents, store, chat, ctl>>

\* Lines 15-17: __call__ awaits self.app(scope, receive, send).
MwCall(r) ==
    /\ mw[r].pc = "idle"
    /\ mw' = [mw EXCEPT ![r].pc = "in_app", ![r].app_calls = @ + 1]
    /\ UNCHANGED othersThanMw

\* The app returns: __call__ returns after the try statement.
AppReturns(r) ==
    /\ mw[r].pc = "in_app"
    /\ mw' = [mw EXCEPT ![r].pc = "returned", ![r].app_out = Some("return")]
    /\ UNCHANGED othersThanMw

\* The app raises (a cancellation of the task during the await arrives the
\* same way): lines 18-20 return on a match, otherwise the exception leaves
\* __call__.
AppRaises(r, cls) ==
    /\ mw[r].pc = "in_app"
    /\ IF Caught(cls)
       THEN mw' = [mw EXCEPT ![r].pc = "returned", ![r].app_out = Some(cls)]
       ELSE mw' = [mw EXCEPT ![r].pc = "raised", ![r].app_out = Some(cls),
                             ![r].exc = Some(cls)]
    /\ UNCHANGED othersThanMw

InitMw ==
    /\ CoreIdle /\ ServicesIdleBut("mw")
    /\ mw = NewMw

NextMw ==
    \/ \E r \in Requests : MwCall(r)
    \/ \E r \in Requests : AppReturns(r)
    \/ \E r \in Requests, cls \in AppExceptions : AppRaises(r, cls)

SpecMw == InitMw /\ [][NextMw]_vars

\* C24: the wrapped app is called exactly once per request; when the app
\* raises CancelledError the middleware returns normally, and when it raises
\* another exception that exception leaves the middleware unchanged.
C24_OnlyCancelSuppressed ==
    \A r \in Requests :
        /\ mw[r].app_calls <= 1
        /\ mw[r].pc # "idle" => mw[r].app_calls = 1
        /\ mw[r].app_out = Some("CancelledError")
              => (mw[r].pc = "returned" /\ mw[r].exc = None)
        /\ (mw[r].app_out # None /\ mw[r].app_out \notin {Some("return"), Some("CancelledError")})
              => (mw[r].pc = "raised" /\ mw[r].exc = mw[r].app_out)
        /\ mw[r].app_out = Some("return") => mw[r].pc = "returned"

\* C24: three finished requests, one whose app was cancelled, one whose app
\* raised CustomError and one whose app raised KeyboardInterrupt.
C24_Witness ==
    /\ mw # <<>>
    /\ mw["r1"].app_out = Some("CancelledError") /\ mw["r1"].pc = "returned"
    /\ mw["r2"].app_out = Some("CustomError") /\ mw["r2"].pc = "raised"
    /\ mw["r3"].app_out = Some("KeyboardInterrupt") /\ mw["r3"].pc = "raised"

(***************************************************************************)
(* backend/listener/intents.py on whole transcripts.  A transcript is the  *)
(* sequence of its whitespace-separated words; a word may carry a capital  *)
(* letter or a trailing comma.                                             *)
(***************************************************************************)

MaxWords == 3

Vocabulary == {"shut", "down", "shutdown", "Exit", "do", "not", "now,", "don't",
               "cancel", "go", "ahead", "kill", "server", "confirm", "yes,",
               "please"}

\* re.IGNORECASE and the word boundary before a trailing comma: the letters
\* of the word, in lower case.
Letters(word) ==
    CASE word = "Exit" -> "exit"
      [] word = "now," -> "now"
      [] word = "yes," -> "yes"
      [] OTHER         -> word

\* What follows the letters of the word up to the next word.
After(word) == IF word \in {"now,", "yes,"} THEN "," ELSE ""

Transcriptions == UNION {[1..n -> Vocabulary] : n \in 0..MaxWords}

\* The words of ph match at position i of ws with \s+ (or \s*) between them:
\* only the last matched word may be followed by something else than blanks.
MatchAt(ws, i, ph, gap) ==
    /\ i + Len(ph) - 1 <= Len(ws)
    /\ \A k \in 1..Len(ph) :
          /\ Letters(ws[i + k - 1]) = ph[k]
          /\ k < Len(ph) => After(ws[i + k - 1]) \in gap

Search(ws, phrases, gap) ==
    \E ph \in phrases : \E i \in 1..Len(ws) : MatchAt(ws, i, ph, gap)

\* _NEGATIONS (lines 17-20)
NegationPatterns ==
    {<<"don't">>, <<"do", "not">>, <<"not", "now">>, <<"cancel">>, <<"false", "alarm">>}

\* _SHUTDOWN_HOTWORDS without its last alternative (lines 9-11); \s* also
\* matches the words written as one.
ShutdownPatterns ==
    {<<"shut", "down">>, <<"shutdown">>, <<"power", "off">>, <<"poweroff">>,
     <<"turn", "off">>, <<"turnoff">>, <<"stop", "listening">>,
     <<"stop", "the", "server">>, <<"stop", "server">>, <<"exit">>, <<"quit">>,
     <<"terminate">>, <<"end", "session">>, <<"end", "process">>, <<"end", "server">>}

\* kill\b.*\bserver\b (line 12)
KillServer(ws) ==
    \E i, j \in 1..Len(ws) : i < j /\ Letters(ws[i]) = "kill" /\ Letters(ws[j]) = "server"

\* _CONFIRM_HOTWORDS (lines 22-29): the alternatives with \s+ only, and
\* "yes[, ]*(...)", which also accepts a comma after "yes".
ConfirmPatterns ==
    {<<c, "shut", "down">> : c \in {"confirm", "confirmed"}}
    \cup {<<c, x>> : c \in {"confirm", "confirmed"}, x \in {"shutdown", "exit", "quit"}}
    \cup {<<"go", "ahead">>}

YesPatterns == {<<"yes", "shut", "down">>, <<"yes", "shutdown">>, <<"yes", "exit">>}

YesMatch(ws) ==
    \E ph \in YesPatterns : \E i \in 1..Len(ws) :
        /\ MatchAt(ws, i, ph, {"", ","})
        /\ Len(ph) = 3 => After(ws[i + 1]) = ""

NegationsSearchNever(ws) == FALSE

NegationsSearch(ws) == Search(ws, NegationPatterns, {""})

ShutdownHotwordsSearch(ws) == Search(ws, ShutdownPatterns, {""}) \/ KillServer(ws)

ConfirmHotwordsSearch(ws) == Search(ws, ConfirmPatterns, {""}) \/ YesMatch(ws)

\* intent_shutdown (lines 34-37) on the words of the text
IntentShutdown(ws) == IF NegationsSearch(ws) THEN FALSE ELSE ShutdownHotwordsSearch(ws)

\* intent_confirm (lines 40-43) on the words of the text
IntentConfirm(ws) == IF NegationsSearch(ws) THEN FALSE ELSE ConfirmHotwordsSearch(ws)

othersThanIntents == <<coreVars, pipe, handles, tts, mw, store, chat, ctl>>

CallIntentShutdown ==
    /\ intents.shutdown = None
    /\ intents' = [intents EXCEPT !.shutdown = Some(IntentShutdown(intents.text))]
    /\ UNCHANGED othersThanIntents

CallIntentConfirm ==
    /\ intents.confirm = None
    /\ intents' = [intents EXCEPT !.confirm = Some(IntentConfirm(intents.text))]
    /\ UNCHANGED othersThanIntents

InitIntents ==
    /\ CoreIdle /\ ServicesIdleBut("intents")
    /\ \E ws \in Transcriptions :
          intents = [text |-> ws, shutdown |-> None, confirm |-> None]

NextIntents == CallIntentShutdown \/ CallIntentConfirm

SpecIntents == InitIntents /\ [][NextIntents]_vars

\* The text contains the phrase: its words, in order and next to each other.
Contains(ws, ph) ==
    \E i \in 1..Len(ws) :
        /\ i + Len(ph) - 1 <= Len(ws)
        /\ \A k \in 1..Len(ph) : Letters(ws[i + k - 1]) = ph[k]

\* don't, do not, not now, cancel, false alarm
HasNegationToken(ws) ==
    \E ph \in {<<"don't">>, <<"do", "not">>, <<"not", "now">>, <<"cancel">>,
               <<"false", "alarm">>} : Contains(ws, ph)

\* The shutdown phrases of the intent matcher; "kill ... server" allows words
\* in between.
HasShutdownPhrase(ws) ==
    \/ \E ph \in {<<"shut", "down">>, <<"shutdown">>, <<"power", "off">>,
                  <<"turn", "off">>, <<"stop", "listening">>,
                  <<"stop", "the", "server">>, <<"stop", "server">>, <<"exit">>,
                  <<"quit">>, <<"terminate">>, <<"end", "session">>,
                  <<"end", "process">>, <<"end", "server">>} : Contains(ws, ph)
    \/ \E i, j \in 1..Len(ws) :
          i < j /\ Letters(ws[i]) = "kill" /\ Letters(ws[j]) = "server"

\* C25: intent_shutdown is true iff the text contains a shutdown phrase and
\* no negation token, and intent_confirm is false whenever the text contains
\* a negation token.
C25_NegationDominates ==
    /\ intents.shutdown # None =>
          (Val(intents.shutdown) <=> (HasShutdownPhrase(intents.text)
                                      /\ ~HasNegationToken(intents.text)))
    /\ (intents.confirm # None /\ HasNegationToken(intents.text)) =>
          Val(intents.confirm) = FALSE

\* C25: both functions have returned false on "don't go ahead", a text with a
\* confirm phrase and a negation token.
C25_Witness ==
    /\ intents # <<>>
    /\ intents.text = <<"don't", "go", "ahead">>
    /\ intents.confirm = Some(FALSE)
    /\ intents.shutdown = Some(FALSE)
    /\ ConfirmHotwordsSearch(intents.text)

(***************************************************************************)
(* memory/conversation.py: the conversation store.  Every public function  *)
(* runs inside "with _lock, conn:", so a call is one step; the tables are  *)
(* the ones the module's connection sees.                                  *)
(***************************************************************************)

MaxId == 3       \* conversations ever created (AUTOINCREMENT ids 1..MaxId)
MaxTurns == 2    \* rows of conversation_history per conversation

ConvIds == 1..MaxId

\* Titles given by callers; " x" has a leading blank.
GivenTitles == {"", " x"}

StripTitle(t) == IF t = " x" THEN "x" ELSE t

\* A stored title: the text and the number of a "(i)" suffix, 0 for none.
Titled(text) == <<text, 0>>

\* f"New conversation ({i})", i = 0 standing for the bare "New conversation"
DefaultTitle(i) == <<"New conversation", i>>

\* _generate_default_title (lines 129-152)
_generate_default_title(existing) ==
    DefaultTitle(CHOOSE i \in 0..MaxId :
                    /\ DefaultTitle(i) \notin existing
                    /\ \A j \in 0..(i - 1) : DefaultTitle(j) \in existing)

Roles == {"user", "assistant"}

\* The database after _migrate on a new file (lines 105-126), and _lock.
NewStore ==
    [conversations |-> {1},                       \* ids in table conversations
     title         |-> [c \in {1} |-> Titled("Conversation 1")],
     history       |-> [c \in {1} |-> <<>>],      \* conversation_history per id
     active        |-> Some(1),                   \* app_state.active_conversation_id
     next_id       |-> 2,                         \* next AUTOINCREMENT id
     _lock         |-> "free",
     last          |-> "none"]                    \* outcome of the last call

Restrict(f, S) == [c \in S |-> f[c]]

MaxOf(S) == CHOOSE m \in S : \A x \in S : x <= m

\* _get_active_conversation_id (lines 157-168) for a non-empty app_state row
ActiveId(st) == Val(st.active)

\* new_conversation(title, activate) (lines 197-220)
new_conversation(st, title, activate) ==
    LET raw_title == StripTitle(title)
        final_title == IF raw_title # "" THEN Titled(raw_title)
                       ELSE _generate_default_title({st.title[c] : c \in st.conversations})
        cid == st.next_id
    IN  [st EXCEPT
            !.conversations = @ \cup {cid},
            !.title = [c \in st.conversations \cup {cid} |->
                          IF c = cid THEN final_title ELSE st.title[c]],
            !.history = [c \in st.conversations \cup {cid} |->
                          IF c = cid THEN <<>> ELSE st.history[c]],
            !.next_id = cid + 1,
            !.active = IF activate THEN Some(cid) ELSE @,
            !.last = "ok"]

\* The remaining conversations after "DELETE FROM conversations WHERE id = ?"
\* (ON DELETE CASCADE removes the rows of conversation_history).
Deleted(st, cid) ==
    LET rest == st.conversations \ {cid}
    IN  [st EXCEPT !.conversations = rest,
                   !.title = Restrict(st.title, rest),
                   !.history = Restrict(st.history, rest)]

\* The active conversation was deleted and no other is left (lines 245-248):
\* whether delete_conversation can call new_conversation while it holds the
\* non-reentrant _lock.
CanReenter(st) == FALSE

\* delete_conversation(conversation_id) (lines 229-248)
delete_conversation(st, cid) ==
    LET d == Deleted(st, cid)
    IN  IF st.active # Some(cid)
        THEN [d EXCEPT !.last = "ok"]
        ELSE IF d.conversations # {}
        THEN [d EXCEPT !.active = Some(MaxOf(d.conversations)), !.last = "ok"]
        ELSE IF CanReenter(st)
        THEN LET n == new_conversation(d, "Conversation 1", FALSE)
             IN  [n EXCEPT !.active = Some(d.next_id), !.last = "ok"]
        ELSE \* new_conversation blocks on _lock, which this thread holds: the
             \* call never returns and the transaction stays open
             [d EXCEPT !._lock = "held", !.last = "blocked"]

\* set_active_conversation(conversation_id) (lines 257-264)
set_active_conversation(st, cid) ==
    IF cid \notin st.conversations
    THEN [st EXCEPT !.last = "ValueError"]
    ELSE [st EXCEPT !.active = Some(cid), !.last = "ok"]

\* rename_conversation(conversation_id, title) (lines 223-226)
rename_conversation(st, cid, title) ==
    [st EXCEPT !.title = [c \in st.conversations |->
                             IF c = cid THEN Titled(StripTitle(title)) ELSE st.title[c]],
               !.last = "ok"]

\* "int(conversation_id or _get_active_conversation_id(conn))"
TargetId(st, conversation_id) ==
    IF conversation_id = None THEN ActiveId(st) ELSE Val(conversation_id)

\* clear_conversation(conversation_id=None) (lines 309-313)
clear_conversation(st, conversation_id) ==
    LET cid == TargetId(st, conversation_id)
    IN  [st EXCEPT !.history = [c \in st.conversations |->
                                   IF c = cid THEN <<>> ELSE st.history[c]],
                   !.last = "ok"]

\* append_turn(role, message, conversation_id=None) (lines 299-306); the
\* foreign key rejects a conversation that does not exist.
append_turn(st, role, message, conversation_id) ==
    LET cid == TargetId(st, conversation_id)
    IN  IF cid \notin st.conversations
        THEN [st EXCEPT !.last = "IntegrityError"]
        ELSE [st EXCEPT !.history[cid] = Append(@, <<role, message>>), !.last = "ok"]

othersThanStore == <<coreVars, pipe, handles, tts, mw, intents, chat, ctl>>

\* A call can enter "with _lock".
StoreFree == store._lock = "free"

NewConversation(title, activate) ==
    /\ StoreFree
    /\ store.next_id <= MaxId
    /\ store' = new_conversation(store, title, activate)
    /\ UNCHANGED othersThanStore

DeleteConversation(cid) ==
    /\ StoreFree
    /\ store' = delete_conversation(store, cid)
    /\ UNCHANGED othersThanStore

SetActiveConversation(cid) ==
    /\ StoreFree
    /\ store' = set_active_conversation(store, cid)
    /\ UNCHANGED othersThanStore

RenameConversation(cid, title) ==
    /\ StoreFree
    /\ store' = rename_conversation(store, cid, title)
    /\ UNCHANGED othersThanStore

ClearConversation(conversation_id) ==
    /\ StoreFree
    /\ store' = clear_conversation(store, conversation_id)
    /\ UNCHANGED othersThanStore

AppendTurn(role, conversation_id) ==
    /\ StoreFree
    /\ LET cid == TargetId(store, conversation_id)
       IN  cid \in store.conversations => Len(store.history[cid]) < MaxTurns
    /\ store' = append_turn(store, role, "m", conversation_id)
    /\ UNCHANGED othersThanStore

OptIds == {None} \cup {Some(c) : c \in ConvIds}

InitStore ==
    /\ CoreIdle /\ ServicesIdleBut("store")
    /\ store = NewStore

NextStore ==
    \/ \E t \in GivenTitles, a \in BOOLEAN : NewConversation(t, a)
    \/ \E c \in ConvIds : DeleteConversation(c)
    \/ \E c \in ConvIds : SetActiveConversation(c)
    \/ \E c \in ConvIds, t \in GivenTitles : RenameConversation(c, t)
    \/ \E o \in OptIds : ClearConversation(o)
    \/ \E r \in Roles, o \in OptIds : AppendTurn(r, o)

SpecStore == InitStore /\ [][NextStore]_vars

\* C27: at least one conversation exists and the active id refers to an
\* existing conversation, whatever calls have been made; and
\* set_active_conversation with an unknown id raises ValueError and leaves
\* the active id unchanged.
C27_ActiveConversationExists ==
    /\ store.conversations # {}
    /\ store.active # None /\ Val(store.active) \in store.conversations
    /\ \A c \in ConvIds :
          c \notin store.conversations =>
              /\ set_active_conversation(store, c).last = "ValueError"
              /\ set_active_conversation(store, c).active = store.active

(***************************************************************************)
(* backend/api/routes/chat.py: chat_endpoint.  The handler has no await,   *)
(* so requests do not interleave with each other; the store is also used   *)
(* by other threads between the handler's calls of it.                     *)
(***************************************************************************)

\* payload.user_text
UserTexts == {"", " ", "hi", " hi"}

\* (payload.user_text or "").strip()
StripUserText(t) == IF t \in {"", " "} THEN "" ELSE "hi"

\* generate_reply(text, ...): the model's sentence or the fallback
ChatReplies == {"r1", "r2"}

\* The outcome of one INSERT of append_turn: done, or sqlite3 raised (the
\* database file is locked by another connection, the disk is full).
DbOutcomes == {"ok", "OperationalError"}

ErrorResponse(error) == <<"error", error>>
ChatResponse(reply) == <<"reply", reply>>

\* convs keeps, for each turn the handler appended, the conversation that
\* append_turn resolved for it (conversation.py line 302).
NoChat == [pc |-> "idle", text |-> "", reply |-> "", response |-> None,
           appended |-> <<>>, convs |-> <<>>, llm_calls |-> 0]

othersThanChat == <<coreVars, pipe, handles, tts, mw, intents, ctl>>

\* Lines 24-59: an empty text is refused; otherwise the reply is generated.
ChatRequest(user_text, reply) ==
    /\ chat.pc = "idle"
    /\ LET text == StripUserText(user_text)
       IN  IF text = ""
           THEN chat' = [NoChat EXCEPT !.pc = "done",
                                       !.response = Some(ErrorResponse("empty user_text"))]
           ELSE chat' = [NoChat EXCEPT !.pc = "replied", !.text = text,
                                       !.reply = reply, !.llm_calls = 1]
    /\ UNCHANGED <<store, othersThanChat>>

\* One append_turn of the handler, with the except clause of lines 64-66.
ChatAppend(role, message, outcome, next_pc) ==
    /\ StoreFree
    /\ Len(store.history[ActiveId(store)]) < MaxTurns
    /\ LET st == append_turn(store, role, message, None)
       IN  IF outcome = "ok" /\ st.last = "ok"
           THEN /\ store' = st
                /\ chat' = [chat EXCEPT
                       !.appended = Append(@, <<role, message>>),
                       !.convs = Append(@, ActiveId(store)),
                       !.pc = next_pc,
                       !.response = IF next_pc = "done"
                                    THEN Some(ChatResponse(chat.reply)) ELSE @]
           ELSE /\ store' = store
                /\ chat' = [chat EXCEPT
                       !.pc = "done",
                       !.response = Some(ErrorResponse("chat generation failed"))]
    /\ UNCHANGED othersThanChat

\* Line 61: append_turn("user", text)
ChatAppendUser(outcome) ==
    /\ chat.pc = "replied"
    /\ ChatAppend("user", chat.text, outcome, "user_appended")

\* Lines 62-63: append_turn("assistant", reply) and the response
ChatAppendAssistant(outcome) ==
    /\ chat.pc = "user_appended"
    /\ ChatAppend("assistant", chat.reply, outcome, "done")

\* The response has been sent; the next request can come.
ChatNext ==
    /\ chat.pc = "done"
    /\ chat' = NoChat
    /\ UNCHANGED <<store, othersThanChat>>

InitChat ==
    /\ CoreIdle /\ ServicesIdleBut("chat")
    /\ store = NewStore
    /\ chat = NoChat

NextChat ==
    \/ \E t \in UserTexts, r \in ChatReplies : ChatRequest(t, r)
    \/ \E o \in DbOutcomes : ChatAppendUser(o)
    \/ \E o \in DbOutcomes : ChatAppendAssistant(o)
    \/ ChatNext
    \/ \E t \in GivenTitles, a \in BOOLEAN : NewConversation(t, a)
    \/ \E c \in ConvIds : DeleteConversation(c)
    \/ \E c \in ConvIds : SetActiveConversation(c)
    \/ \E o \in OptIds : ClearConversation(o)

SpecChat == InitChat /\ [][NextChat]_vars

IsError(response) == response # None /\ Val(response)[1] = "error"

\* C26: a request with an empty text returns an error without calling the
\* LLM and without appending a turn; a successful request has appended
\* exactly two turns, the user text then the assistant reply; and a request
\* answered with an error has appended no turn.
C26_ChatPersistence ==
    chat.pc = "done" =>
        /\ chat.text = "" => /\ IsError(chat.response)
                             /\ chat.llm_calls = 0
                             /\ chat.appended = <<>>
        /\ ~IsError(chat.response) =>
              chat.appended = <<<<"user", chat.text>>, <<"assistant", chat.reply>>>>
        /\ IsError(chat.response) => chat.appended = <<>>

(***************************************************************************)
(* The debounce of the VAD state machine (audio/vad/detector.py), checked  *)
(* under SpecVAD.                                                          *)
(***************************************************************************)

\* ceil(a / b) for positive b
CeilDiv(a, b) == (a + b - 1) \div b

\* C29: attack_needed = ceil(attack_ms / frame_ms) and release_needed =
\* ceil(release_ms / frame_ms); attack_needed, release_needed and max_frames
\* are at least 1; and the machine is in Speech only after a run of
\* ceil(attack_ms / frame_ms) trigger-true frames (above_cnt keeps the length
\* of the run that started the segment).
C29_DebounceCounts ==
    /\ attack_needed(vad.cfg) = CeilDiv(vad.cfg.vad_attack_ms, frame_ms)
    /\ release_needed(vad.cfg) = CeilDiv(vad.cfg.vad_release_ms, frame_ms)
    /\ attack_needed(vad.cfg) >= 1
    /\ release_needed(vad.cfg) >= 1
    /\ max_frames(vad.cfg) >= 1
    /\ vad.in_speech => vad.above_cnt = CeilDiv(vad.cfg.vad_attack_ms, frame_ms)

\* A frame of RMS r is handled in Speech.
SpeechStep(r) ==
    /\ vad.pc = "read" /\ ~StopSeen(vad) /\ vad.in_speech
    /\ vad.captured < MaxFrames
    /\ vad' = Process(vad, r)

\* C30: in Speech, a trigger-true frame sets below_cnt to 0 and hangover to
\* hangover_frames; a trigger-false frame with hangover > 0 decrements
\* hangover and keeps below_cnt at 0; a trigger-false frame with hangover = 0
\* increments below_cnt.  After a trigger-true frame in Speech, a segment
\* shorter than max_frames ends exactly on the (hangover_frames +
\* release_needed)-th trigger-false frame in a row.
C30_HangoverThenRelease ==
    [][ \A r \in Levels :
          SpeechStep(r) =>
            LET c == vad.cfg
                H == hangover_frames(c)
                R == release_needed(c)
                ended == ~vad'.in_speech \/ vad'.pc = "yielded"
                k == IF Trigger(vad, r) THEN 0 ELSE Val(vad.dip) + 1
            IN  /\ vad'.in_speech =>
                      /\ Trigger(vad, r)
                            => vad'.below_cnt = 0 /\ vad'.hangover = H
                      /\ (~Trigger(vad, r) /\ vad.hangover > 0)
                            => /\ vad'.hangover = vad.hangover - 1
                               /\ vad'.below_cnt = 0
                      /\ (~Trigger(vad, r) /\ vad.hangover = 0)
                            => /\ vad'.below_cnt = vad.below_cnt + 1
                               /\ vad'.hangover = 0
                /\ ((Trigger(vad, r) \/ vad.dip # None)
                      /\ Len(vad.cur) + 1 < max_frames(c))
                      => /\ k <= H + R
                         /\ ended <=> (k = H + R)
      ]_vars

\* C30: an utterance has been yielded on the third trigger-false frame after
\* a trigger-true frame in Speech, with hangover_frames = 1 and
\* release_needed = 2, before max_frames.
C30_Witness ==
    /\ vad # <<>>
    /\ vad.pc = "yielded"
    /\ hangover_frames(vad.cfg) = 1 /\ release_needed(vad.cfg) = 2
    /\ vad.dip = Some(3)
    /\ Len(vad.cur) < max_frames(vad.cfg)

\* C31: a segment is finalized on the first frame at which the number of
\* accumulated frames is >= max_frames: no yielded utterance has more than
\* max_frames frames, a pass in Speech that brings the segment to max_frames
\* or more ends it, and after the consumer resumes the generator the machine
\* is Idle with its counters reset, ready to trigger again.
C31_MaxLength ==
    /\ [](\A i \in 1..Len(vad.emitted) :
            Len(vad.emitted[i]) <= max_frames(vad.cfg))
    /\ [](vad.in_speech /\ vad.pc \in {"run", "read"}
            => Len(vad.cur) < max_frames(vad.cfg))
    /\ [][ /\ (vad'.captured = vad.captured + 1 /\ vad.in_speech
               /\ Len(vad.cur) + 1 >= max_frames(vad.cfg))
              => (vad'.pc = "yielded" \/ Idle(vad'))
           /\ (vad.pc = "yielded" /\ vad'.pc = "run")
              => (Idle(vad') /\ CountersReset(vad'))
         ]_vars

\* C32: at the Idle -> Speech transition the frame list of the utterance is
\* the pre-roll frames in capture order followed by the trigger frame, each
\* captured frame once; it holds at most pre_frames frames captured before the
\* trigger frame; and with a pre-roll of size zero it is the trigger frame
\* alone.
C32_PreRollThenTrigger ==
    [][(Idle(vad) /\ vad'.in_speech) =>
         LET cur == vad'.cur
             frame == vad'.captured
         IN  /\ cur # <<>> /\ cur[Len(cur)] = frame
             /\ \A i \in 1..(Len(cur) - 1) : cur[i] < cur[i + 1]
             /\ Cardinality({i \in 1..Len(cur) : cur[i] < frame})
                  <= pre_frames(vad.cfg)
             /\ pre_frames(vad.cfg) = 0 => cur = <<frame>>
      ]_vars

\* A frame of RMS r goes through the loop body.
FrameStep(r) ==
    /\ vad.pc = "read" /\ ~StopSeen(vad)
    /\ vad.captured < MaxFrames
    /\ vad' = Process(vad, r)

\* The trigger of a frame of RMS r taken with the threshold of floor value f.
DecisionWith(f, r) ==
    IF vad.cfg.vad_use_instant_rms_for_trigger
    THEN Fx(r) >= threshold(vad.cfg, f)
    ELSE vad'.env_rms >= threshold(vad.cfg, f)

\* C33: a frame leaves floor_rms unchanged when the machine is in Speech at
\* the start of the frame, and when r_inst >= floor_adapt_margin * thr; the
\* trigger decision of the frame (above_cnt counted up in Idle, the dip ended
\* in Speech) is the one taken with the threshold of the floor value before
\* the frame's adaptation.
C33_FloorFrozenInSpeech ==
    [][ \A r \in Levels :
          FrameStep(r) =>
            LET c == vad.cfg
                thr == threshold(c, vad.floor_rms)
            IN  /\ (vad.in_speech
                      \/ Fx(r) * 100 >= c.vad_floor_adapt_margin * thr)
                     => vad'.floor_rms = vad.floor_rms
                /\ Idle(vad)
                     => ((vad'.above_cnt > 0) <=> DecisionWith(vad.floor_rms, r))
                /\ (vad.in_speech /\ vad'.in_speech)
                     => ((vad'.dip = Some(0)) <=> DecisionWith(vad.floor_rms, r))
      ]_vars

\* C33: in envelope mode with vad_floor_min = 100, two loud frames and a
\* silent one start a segment: the silent frame triggers with the threshold of
\* the old floor (200 <= env) and raises the floor to 100, with which it would
\* not have triggered (300 > env).  A loud and a silent frame handled in
\* Speech then leave the floor at 100.
C33_Witness ==
    /\ vad # <<>>
    /\ ~vad.cfg.vad_use_instant_rms_for_trigger
    /\ vad.in_speech /\ vad.pc = "run"
    /\ vad.above_cnt = 2
    /\ vad.dip = Some(1)
    /\ vad.captured = 5
    /\ vad.floor_rms = Fx(vad.cfg.vad_floor_min)
    /\ vad.floor_rms > Fx(initial_floor_rms)
    /\ vad.env_rms =
         ema(0, ema(Fx(1000), ema(0, ema(Fx(1000), ema(Fx(1000), 0,
             alpha_env), alpha_env), alpha_env), alpha_env), alpha_env)

\* C34: once stop_event is set the orchestrator starts no new pipeline call:
\* no utterance is taken from the VAD and handed to process_utterance in a
\* state where stop_event is set, also not one that the VAD worker delivers
\* just after the stop request.
C34_NoPipelineAfterStop ==
    [][lsn.stop_event =>
         /\ lsn'.cycles = lsn.cycles
         /\ (lsn'.worker = "pipe" => lsn.worker = "pipe")
      ]_vars

\* C35: in every utterance cycle the publications are processing = true, the
\* snapshot, processing = false, in this order: processing is true only
\* between the fetch of an utterance and the end of its cycle, and when
\* processing goes from true to false the snapshot of that cycle is already
\* published (one snapshot per utterance taken so far).  Cycles cut short by
\* the cancellation of the task or ended by a voice shutdown, which publish
\* no snapshot, are left aside.
C35_ProcessingBracketsSnapshot ==
    /\ [](_state.processing => lsn.pc = "pipeline")
    /\ [][(_state.processing /\ ~_state'.processing
              /\ lsn'.how \notin {"cancelled", "shutdown"})
            => (Len(log') = lsn'.cycles - lsn'.shut /\ _seq' = Len(log'))]_vars

InSetSnapshot(t) ==
    pc[t] \in {"ss_load", "ss_store", "ss_update", "ss_notify", "ss_release"}

\* C36: no step of a set_snapshot call, from taking the lock to releasing it,
\* changes the recording or the processing flag, whatever set_status calls of
\* other threads come before, after or wait for the lock meanwhile.
C36_SnapshotKeepsFlags ==
    [][\A t \in Threads :
         ((InSetSnapshot(t) \/ InSetSnapshot(t)') /\ pc'[t] # pc[t]) =>
            /\ _state'.recording = _state.recording
            /\ _state'.processing = _state.processing
      ]_vars

\* C36: the second publication has updated the state while both flags, set by
\* set_status calls, are up.
C36_Witness ==
    \E t \in Threads :
        /\ pc[t] = "ss_notify"
        /\ _state.seq = Some(2)
        /\ _state.recording /\ _state.processing

\* C37: delete_conversation always returns and releases the module lock.
\* Deleting the active conversation when it is the only one creates a fresh
\* conversation and makes it active; when others remain, the most recent of
\* them (the largest id) becomes active; deleting a conversation that is not
\* the active one leaves the active id unchanged.
C37_DeleteAlwaysReturns ==
    [][\A cid \in store.conversations :
         (StoreFree /\ store' = delete_conversation(store, cid)) =>
            LET rest == store.conversations \ {cid}
            IN  /\ store'.last = "ok" /\ store'._lock = "free"
                /\ cid \notin store'.conversations
                /\ (store.active = Some(cid) /\ rest = {})
                     => /\ store'.conversations = {store.next_id}
                        /\ store'.active = Some(store.next_id)
                /\ (store.active = Some(cid) /\ rest # {})
                     => store'.active = Some(MaxOf(rest))
                /\ store.active # Some(cid) => store'.active = store.active
      ]_vars

(***************************************************************************)
(* The control API: backend/api/routes/control.py (/status, /start, /stop, *)
(* /shutdown), backend/api/routes/audio.py (/audio/select) and the         *)
(* lifespan of backend/api/app.py.  The handlers are coroutines on the     *)
(* event loop; one that reaches no await runs as one step.  A listener     *)
(* task is seen here through task.done() only.                             *)
(***************************************************************************)

MaxTasks == 3    \* run_listener tasks ever created

TaskIds == 1..MaxTasks

\* app.state after the startup part of _lifespan (lines 27-42): with
\* start_listener_on_boot the first task exists.
NewCtl(boot) ==
    [stop_event    |-> FALSE,                         \* app.state.stop_event
     listener_task |-> IF boot THEN Some(1) ELSE None, \* app.state.listener_task
     task          |-> [i \in TaskIds |->
                          IF boot /\ i = 1 THEN "running" ELSE "none"],
     serving       |-> TRUE,      \* /shutdown has not been served
     \* history: the tasks that were running when stop_event.set() was
     \* called; a /start answered ok with no stop request since; the task in
     \* app.state.listener_task ended by an exception of its own
     asked         |-> [i \in TaskIds |-> FALSE],
     want          |-> FALSE,
     ended_itself  |-> FALSE]

\* "task is not None and not task.done()"
TaskActive(c) ==
    c.listener_task # None /\ c.task[Val(c.listener_task)] = "running"

RunningTasks(c) == {i \in TaskIds : c.task[i] = "running"}

NextTask(c) == Cardinality({i \in TaskIds : c.task[i] # "none"}) + 1

\* "app.state.listener_task = asyncio.create_task(run_listener(...))"
create_task(c) ==
    [c EXCEPT !.listener_task = Some(NextTask(c)),
              !.task[NextTask(c)] = "running",
              !.ended_itself = FALSE]

\* stop_event.set(), seen by every task that is running
SetStopEvent(c) ==
    [c EXCEPT !.stop_event = TRUE,
              !.asked = [i \in TaskIds |-> @[i] \/ c.task[i] = "running"]]

othersThanCtl == <<coreVars, pipe, handles, tts, mw, intents, store, chat>>

\* POST /start (control.py:29-39)
StartListener ==
    /\ ctl.serving
    /\ IF TaskActive(ctl)
       THEN ctl' = [ctl EXCEPT !.want = TRUE]
       ELSE /\ NextTask(ctl) <= MaxTasks
            /\ ctl' = create_task([ctl EXCEPT !.stop_event = FALSE,
                                              !.want = TRUE])
    /\ UNCHANGED othersThanCtl

\* POST /stop (control.py:42-50)
StopListener ==
    /\ ctl.serving
    /\ IF ~TaskActive(ctl)
       THEN ctl' = [ctl EXCEPT !.want = FALSE]
       ELSE ctl' = [SetStopEvent(ctl) EXCEPT !.want = FALSE]
    /\ UNCHANGED othersThanCtl

\* POST /audio/select on a device that validates (audio.py:61-126).  With
\* restart and a running task: stop_event.set(); "with asyncio.timeout(2.5)"
\* raises TypeError (asyncio.timeout is an asynchronous context manager
\* only), which "except Exception: pass" drops before "await task" is
\* reached; stop_event.clear().  Then the new task is created.  No await is
\* reached, so the handler is one step.
SelectDevice(restart) ==
    /\ ctl.serving
    /\ IF ~restart
       THEN UNCHANGED ctl
       ELSE /\ NextTask(ctl) <= MaxTasks
            /\ ctl' = create_task(
                         IF TaskActive(ctl)
                         THEN [SetStopEvent(ctl) EXCEPT !.stop_event = FALSE]
                         ELSE ctl)
    /\ UNCHANGED othersThanCtl

\* POST /shutdown (control.py:68-109): stop_event.set(), and the server exits
\* once the response is sent.
Shutdown ==
    /\ ctl.serving
    /\ ctl' = [SetStopEvent(ctl) EXCEPT !.serving = FALSE, !.want = FALSE]
    /\ UNCHANGED othersThanCtl

\* run_listener finds stop_event set (runner.py:34, 80, 87) and returns.
TaskEnds(i) ==
    /\ ctl.task[i] = "running"
    /\ ctl.stop_event
    /\ ctl' = [ctl EXCEPT !.task[i] = "done"]
    /\ UNCHANGED othersThanCtl

\* run_listener ends by an exception (runner.py:95, the unpacking of the
\* pipeline's result; an error of the ASR).
TaskRaises(i) ==
    /\ ctl.task[i] = "running"
    /\ ctl' = [ctl EXCEPT !.task[i] = "done",
                          !.ended_itself = @ \/ ctl.listener_task = Some(i)]
    /\ UNCHANGED othersThanCtl

InitCtl ==
    /\ CoreIdle /\ ServicesIdleBut("ctl")
    /\ \E boot \in BOOLEAN : ctl = NewCtl(boot)

NextCtl ==
    \/ StartListener
    \/ StopListener
    \/ \E restart \in BOOLEAN : SelectDevice(restart)
    \/ Shutdown
    \/ \E i \in TaskIds : TaskEnds(i)
    \/ \E i \in TaskIds : TaskRaises(i)

SpecCtl == InitCtl /\ [][NextCtl]_vars

\* The event loop runs a listener task that is ready to go on.
FairSpecCtl == SpecCtl /\ WF_vars(\E i \in TaskIds : TaskEnds(i))

\* GET /status (control.py:22-26): listening
Listening == TaskActive(ctl)

\* C38: at most one listener task is running at any time, whatever the
\* order of /start, /stop and /audio/select (restart) and of the listener's
\* own steps; and stop_event is not cleared while a listener that was asked
\* to stop is still running.
C38_OneListenerTask ==
    /\ Cardinality(RunningTasks(ctl)) <= 1
    /\ \A i \in TaskIds :
          (ctl.asked[i] /\ ctl.task[i] = "running") => ctl.stop_event

\* C39: a start request is not lost: once /start has answered ok and no stop
\* or shutdown request follows (and the task does not end by an error of its
\* own), a listener task is eventually running and stays so, also when
\* /start came after a /stop whose listener had not finished.  Behaviours
\* that use up the tasks of the model are left aside.
C39_StartNotLost ==
    <>[](ctl.want /\ ~ctl.ended_itself /\ NextTask(ctl) <= MaxTasks)
        => <>[]Listening

(***************************************************************************)
(* The pairing of the two turns of one exchange (backend/api/routes/       *)
(* chat.py lines 61-62 over memory/conversation.py append_turn), checked   *)
(* under SpecChat, where the calls of the UI (ui/actions.py lines 139 and  *)
(* 148) run between the two appends of a request.                          *)
(***************************************************************************)

\* The last two turns of a history are the exchange <<text, reply>>, user first.
EndsWithExchange(h, text, reply) ==
    /\ Len(h) >= 2
    /\ h[Len(h) - 1] = <<"user", text>>
    /\ h[Len(h)] = <<"assistant", reply>>

\* C40: when a request has appended its assistant turn, the user turn and
\* the assistant turn of the exchange are in the same conversation, and they
\* are adjacent in the history of that conversation, the user turn first;
\* each append adds the turn at the end of the history it went to.
C40_TurnsPaired ==
    [][(chat.pc = "user_appended" /\ chat'.pc = "done"
            /\ ~IsError(chat'.response))
        => /\ chat'.convs[1] = chat'.convs[2]
           /\ chat'.convs[2] \in DOMAIN store'.history
           /\ EndsWithExchange(store'.history[chat'.convs[2]],
                               chat.text, chat.reply)]_vars

====
